---------------------------- MODULE Spec2Model ----------------------------
(***************************************************************************)
(* A model of the note-event pipeline of sound_to_music:                   *)
(*   Recorder      (src/src/Recorder.ts)                                   *)
(*   NoteDetector  (src/unnamed/part_000)                                  *)
(*   NoteVisualizerController (src/src/Player.ts)                          *)
(* Times are integer milliseconds.  A JavaScript Map or Set iterates in    *)
(* insertion order, so both are modelled as sequences without duplicate    *)
(* keys.                                                                   *)
(***************************************************************************)
EXTENDS Integers, Sequences, FiniteSets, TLC

VARIABLES
    \* ---- Recorder fields (Recorder.ts 8-13)
    isRecording,      \* private isRecording
    startTime,        \* private startTime: Date.now() at start()
    recordedNotes,    \* private recordedNotes: RecordedNote[]
    activeNotes,      \* private activeNotes: Map<string, number>, insertion order
    maxDuration,      \* private maxDuration (constructor argument)
    maxNotes,         \* private maxNotes (constructor argument)
    \* ---- the environment of the Recorder
    clock,            \* the value Date.now() returns
    returned,         \* the array the last getRecording() call handed to its caller
    call,             \* the last operation invoked, with its arguments
    \* ---- NoteDetector (part_000 6) and its caller's clock
    detectorActiveNotes,  \* NoteDetector.activeNotes: Map note -> first seen (ms)
    currentTimeMs,        \* the timestamp passed to the last detect() call
    frameNotes,           \* detect()'s local currentNotes: the notes of the last frame
    confirmedNotes,       \* the Set the last detect() call returned
    \* ---- what an observer of the detect() calls has seen (history only)
    detectInput,          \* the dataArray and sampleRate of the last detect() call
    heard,                \* the notes that were in the note set of some frame so far
    reappeared,           \* the notes of the last frame that were heard before it but
                          \* were absent from the frame just before it
    seenSince,            \* for each note of the last frame, the time of the first of
                          \* the frames in a row up to it that had the note
    \* ---- NoteVisualizerController (Player.ts 78-157)
    lanes,                \* private lanes: (string | null)[], indices 0..NOTES_TO_SHOW-1
    entered,              \* the createNoteElement calls of the last update(), in order
    laneCall,             \* the last operation invoked on the controller, with its argument
    \* ---- getNoteFromFrequency (part_000 8-18) applied on its own
    mapperFrequency,      \* the argument of the last call, in units of 1/FFT_SIZE Hz
    mapperNote,           \* the string the last call returned
    \* ---- Player (Player.ts 26-72) and the AudioContext it creates
    playerContext,        \* Player.audioContext: "null", or its state "suspended"/"running"
    playerTime,           \* the context's currentTime, in ms
    plays,                \* the play(recording) calls made so far, with where each one is
    tones,                \* the oscillators started so far, with their gain envelopes
    \* ---- AudioEngine (AudioEngine.ts 5-56) and the browser's media devices
    engine,               \* the fields stream, audioContext, analyser, dataArray:
                          \* 0 for null, else the number of the start() call that set it
    starts,               \* the start() calls made so far, with where each one is
    openStreams,          \* the media streams acquired whose tracks are not stopped
    openContexts,         \* the audio contexts created and not closed
    tick,                 \* where the animate() call being run is, "idle" between two
    tickCalls,            \* the calls the last animate() has made so far, in order
    script,               \* how far the ticks so far have followed ScenarioTimes
    \* ---- the monolithic DemoSim (src/src/DemoSim.tsx), run beside the components
    demoScale,            \* the MAX_FREQ_SCALE it is built with, as <<numerator, denominator>>
    demoActiveNotes,      \* activeNotesRef.current: the entries [note, start] in insertion order
    demoConfirmedNotes,   \* the confirmedNotes of its last animate()
    demoLanes             \* lanesRef.current

recorderVars == <<isRecording, startTime, recordedNotes, activeNotes, maxDuration, maxNotes>>
detectorVars == <<detectorActiveNotes, currentTimeMs, frameNotes, confirmedNotes,
                  detectInput, heard, reappeared, seenSince>>
laneVars == <<lanes, entered, laneCall>>
mapperVars == <<mapperFrequency, mapperNote>>
playerVars == <<playerContext, playerTime, plays, tones>>
engineVars == <<engine, starts, openStreams, openContexts>>
pipelineVars == <<tick, tickCalls, script>>
demoVars == <<demoScale, demoActiveNotes, demoConfirmedNotes, demoLanes>>
vars == <<isRecording, startTime, recordedNotes, activeNotes, maxDuration, maxNotes,
          clock, returned, call, detectorActiveNotes, currentTimeMs, frameNotes,
          confirmedNotes, detectInput, heard, reappeared, seenSince, lanes, entered,
          laneCall,
          mapperFrequency, mapperNote, playerContext, playerTime, plays, tones,
          engine, starts, openStreams, openContexts, tick, tickCalls, script,
          demoScale, demoActiveNotes, demoConfirmedNotes, demoLanes>>

---------------------------------------------------------------------------
(* Bounds of the model *)

\* Date.now() runs from 0 to MaxClock.
MaxClock == 3
\* The longest event list a session is let grow to.
MaxEvents == 2
\* The longest maximum duration a Recorder is constructed with.
MaxMaxDuration == 3
\* How far Date.now() may advance between two reads inside one handler.
MaxSkew == 1

\* The last timestamp (ms) a detect() call is given.
MaxTimeMs == 52

\* The number of start() calls made on an AudioEngine.
MaxStarts == 3
\* The number of play() calls made on a Player.
MaxPlays == 2
\* The last value (ms) of the currentTime of the Player's context, and how
\* far it advances at a time.
MaxPlayerTime == 30
PlayerStep == 10

\* The note names the recorder is fed.
RecorderNotes == {"A4", "C4"}

---------------------------------------------------------------------------
(* Constants (part_001 3-14) *)

FFT_SIZE == 2048
MIN_NOTE_DURATION == 50
NOTE_THRESHOLD == 100
NOTES_TO_SHOW == 5
RECORD_DURATION_MS == 30000
NOTES_TO_RECORD == NOTES_TO_SHOW * 2
\* MAX_FREQ_SCALE = 0.3, as a fraction
MAX_FREQ_SCALE_NUM == 3
MAX_FREQ_SCALE_DEN == 10
\* MAX_FREQ_SCALE = 0.125 of the monolith (DemoSim.tsx 13), as a fraction
DEMO_MAX_FREQ_SCALE_NUM == 1
DEMO_MAX_FREQ_SCALE_DEN == 8
NOTE_NAMES == <<"C", "C#", "D", "D#", "E", "F", "F#", "G", "G#", "A", "A#", "B">>

---------------------------------------------------------------------------
(* Sets and maps in insertion order *)

Range(s) == {s[i] : i \in DOMAIN s}

\* The sequences over S without repetition: the values of a Set<string>.
OrderedSets(S) ==
    {s \in UNION {[1..n -> S] : n \in 0..Cardinality(S)} :
        \A i, j \in DOMAIN s : i # j => s[i] # s[j]}

\* Set.prototype.has
SetHas(s, x) == \E i \in DOMAIN s : s[i] = x

\* Map.prototype.has on a map kept as a sequence of [note, start] entries
MapHas(m, note) == \E i \in DOMAIN m : m[i].note = note

MapKeys(m) == {m[i].note : i \in DOMAIN m}

MapGet(m, note) == (CHOOSE i \in DOMAIN m : m[i].note = note)

---------------------------------------------------------------------------
(* Recorder *)

\* One RecordedNote (Recorder.ts 1-5) built from a map entry.
RecordedNote(entry, sessionStart, now) ==
    [note |-> entry.note, startTime |-> entry.start - sessionStart, duration |-> now - entry.start]

\* update(), line 37: the session has run for maxDuration.
TimedOutNever(now, sessionStart, maxDur) == FALSE
TimedOutLate(now, sessionStart, maxDur) == now - sessionStart > maxDur
TimedOutEarly(now, sessionStart, maxDur) == now - sessionStart >= maxDur - 1
TimedOut(now, sessionStart, maxDur) == now - sessionStart >= maxDur

\* update(), lines 43-52: the entries of the map whose note is no longer sounding,
\* in the map's order.  Deleting the entry being visited does not disturb the
\* iteration of a Map.
StoppedNotes(active, currentNotes) ==
    SelectSeq(active, LAMBDA e : ~SetHas(currentNotes, e.note))

\* update(), lines 43-52: the entries that stay in the map.
StillActiveUndeleted(active, currentNotes) == active
StillActive(active, currentNotes) ==
    SelectSeq(active, LAMBDA e : SetHas(currentNotes, e.note))

\* update(), lines 45-49: the events pushed for the notes that stopped.
NoteOffEventsFromSession(entries, sessionStart, now) ==
    [i \in 1..Len(entries) |->
        [note |-> entries[i].note, startTime |-> entries[i].start - sessionStart,
         duration |-> now - sessionStart]]
NoteOffEvents(entries, sessionStart, now) ==
    [i \in 1..Len(entries) |-> RecordedNote(entries[i], sessionStart, now)]

\* update(), line 58: room for one more active note.
HasRoomOffByOne(active, cap) == Len(active) <= cap
HasRoom(active, cap) == Len(active) < cap

\* update(), lines 55-62: the map after the loop over currentNotes.
RECURSIVE TrackNew(_, _, _, _)
TrackNew(active, currentNotes, now, cap) ==
    IF currentNotes = <<>> THEN active
    ELSE LET note == Head(currentNotes)
             next == IF ~MapHas(active, note) /\ HasRoom(active, cap)
                     THEN Append(active, [note |-> note, start |-> now])
                     ELSE active
         IN  TrackNew(next, Tail(currentNotes), now, cap)

\* finalizeActiveNotes(), lines 75-81: one event per entry of the map.
FinalEventsFirstOnly(entries, sessionStart, now) ==
    IF entries = <<>> THEN <<>> ELSE <<RecordedNote(entries[1], sessionStart, now)>>
FinalEvents(entries, sessionStart, now) ==
    [i \in 1..Len(entries) |-> RecordedNote(entries[i], sessionStart, now)]

\* The array cells a caller holds: a cell either still is the very object the
\* recorder's list holds at index ref (ref > 0), or is an object only the caller
\* holds (ref = 0, with its value).
NoEvent == [note |-> "", startTime |-> 0, duration |-> 0]
CellValue(cell) == IF cell.ref > 0 THEN recordedNotes[cell.ref] ELSE cell.val
ReturnedValue == [k \in 1..Len(returned) |-> CellValue(returned[k])]
\* The cells once the recorder has dropped its list: the objects live on in the
\* caller's array alone.
Detached(cells) == [k \in 1..Len(cells) |-> [ref |-> 0, val |-> CellValue(cells[k])]]

\* What is remembered of an invocation: the operation, its argument, and the
\* recorder it met (recording or not, the lengths of its list and its map).
Call(op, notes) ==
    [op |-> op, notes |-> notes, was |-> isRecording,
     nEvents |-> Len(recordedNotes), nActive |-> Len(activeNotes)]

\* this.recordedNotes.push(...), lines 45 and 76, for each event in turn.
PushedInFront(list, events) == events \o list
Pushed(list, events) == list \o events

\* finalizeActiveNotes(), line 82: this.activeNotes.clear().
FinalizedActiveNotesKept == activeNotes
FinalizedActiveNotes == <<>>

\* finalizeActiveNotes(), lines 73-83, reading Date.now() as `now`.
finalizeActiveNotes(now) ==
    /\ Len(recordedNotes) + Len(activeNotes) <= MaxEvents
    /\ recordedNotes' = Pushed(recordedNotes, FinalEvents(activeNotes, startTime, now))
    /\ activeNotes' = FinalizedActiveNotes

\* stop(), line 28, and update(), line 34: the early return of an idle recorder.
StopIgnored == ~isRecording
UpdateIgnoredNever == FALSE
UpdateIgnored == ~isRecording

\* start(), line 24: this.activeNotes.clear().
StartActiveNotesKept == activeNotes
StartActiveNotes == <<>>

\* stop(), lines 27-31, with the value its Date.now() read returns.
stop(now) ==
    IF StopIgnored
    THEN UNCHANGED <<isRecording, recordedNotes, activeNotes>>
    ELSE /\ finalizeActiveNotes(now)
         /\ isRecording' = FALSE

\* start(), lines 20-25.
Start ==
    /\ isRecording' = TRUE
    /\ startTime' = clock
    /\ recordedNotes' = <<>>
    /\ activeNotes' = StartActiveNotes
    /\ call' = Call("start", <<>>)
    /\ UNCHANGED <<maxDuration, maxNotes, clock, detectorVars, laneVars, mapperVars, playerVars, engineVars, demoVars>>

\* stop() as a caller invokes it.
Stop ==
    /\ stop(clock)
    /\ call' = Call("stop", <<>>)
    /\ UNCHANGED <<startTime, maxDuration, maxNotes, clock, detectorVars, laneVars, mapperVars, playerVars, engineVars, demoVars>>

\* update(currentNotes), lines 33-63.
Update(currentNotes) ==
    /\ UNCHANGED <<startTime, maxDuration, maxNotes, detectorVars, laneVars, mapperVars, playerVars, engineVars, demoVars>>
    /\ IF UpdateIgnored
       THEN /\ UNCHANGED <<isRecording, recordedNotes, activeNotes, clock>>
            /\ call' = Call("update", currentNotes)
       ELSE IF TimedOut(clock, startTime, maxDuration)
       THEN \* the stop() it calls reads Date.now() again
            \E d \in 0..MaxSkew :
                /\ clock + d <= MaxClock
                /\ clock' = clock + d
                /\ stop(clock + d)
                /\ call' = Call("update", currentNotes)
       ELSE LET stopped == StoppedNotes(activeNotes, currentNotes)
                kept    == StillActive(activeNotes, currentNotes)
            IN  /\ Len(recordedNotes) + Len(stopped) <= MaxEvents
                /\ recordedNotes' = Pushed(recordedNotes, NoteOffEvents(stopped, startTime, clock))
                /\ activeNotes' = TrackNew(kept, currentNotes, clock, maxNotes)
                /\ call' = Call("update", currentNotes)
                /\ UNCHANGED <<isRecording, clock>>

\* getRecording(), lines 65-67: a new array holding the list's own objects.
getRecordingWithActive ==
    [i \in 1..Len(recordedNotes) |-> [ref |-> i, val |-> NoEvent]]
        \o [i \in 1..Len(activeNotes) |->
                [ref |-> 0, val |-> RecordedNote(activeNotes[i], startTime, clock)]]
getRecording == [i \in 1..Len(recordedNotes) |-> [ref |-> i, val |-> NoEvent]]

GetRecording ==
    /\ returned' = getRecording
    /\ call' = Call("getRecording", <<>>)
    /\ UNCHANGED <<recorderVars, clock, detectorVars, laneVars, mapperVars, playerVars, engineVars, pipelineVars, demoVars>>

\* Date.now() advances between two handlers.
Tick ==
    /\ clock < MaxClock
    /\ clock' = clock + 1
    /\ call' = Call("tick", <<>>)
    /\ UNCHANGED <<recorderVars, detectorVars, laneVars, mapperVars, playerVars, engineVars, pipelineVars, demoVars>>

\* The constructor, lines 15-18, with the limits it is given.
NewRecorder(maxDurationMs, maxSimultaneousNotes) ==
    /\ isRecording = FALSE
    /\ startTime = 0
    /\ recordedNotes = <<>>
    /\ activeNotes = <<>>
    /\ maxDuration = maxDurationMs
    /\ maxNotes = maxSimultaneousNotes
    /\ clock = 0
    /\ returned = <<>>
    /\ call = [op |-> "new", notes |-> <<>>, was |-> FALSE, nEvents |-> 0, nActive |-> 0]

InitRecorder ==
    \E maxDurationMs \in {MaxMaxDuration - 1, MaxMaxDuration},
       maxSimultaneousNotes \in 1..Cardinality(RecorderNotes) :
        NewRecorder(maxDurationMs, maxSimultaneousNotes)

InitDetector ==
    /\ detectorActiveNotes = <<>>
    /\ currentTimeMs = 0
    /\ frameNotes = <<>>
    /\ confirmedNotes = <<>>
    /\ detectInput = [dataArray |-> [length |-> 0, amp |-> <<>>], sampleRate |-> 0]
    /\ heard = {}
    /\ reappeared = {}
    /\ seenSince = {}

\* new NoteVisualizerController(...), Player.ts 81: every lane is null.
null == ""
InitLanes ==
    /\ lanes = [i \in 0..(NOTES_TO_SHOW - 1) |-> null]
    /\ entered = <<>>
    /\ laneCall = [op |-> "new", notes |-> <<>>, vacated |-> 0]

\* Before getNoteFromFrequency has been called on its own.
InitMapper ==
    /\ mapperFrequency = 0
    /\ mapperNote = ""

\* new Player(), Player.ts 27-29: no context yet.
InitPlayer ==
    /\ playerContext = "null"
    /\ playerTime = 0
    /\ plays = <<>>
    /\ tones = <<>>

\* new AudioEngine(), AudioEngine.ts 6-9: every field is null.
InitEngine ==
    /\ engine = [stream |-> 0, audioContext |-> 0, analyser |-> 0, dataArray |-> 0]
    /\ starts = <<>>
    /\ openStreams = {}
    /\ openContexts = {}

\* Before the effect of part_001 56-110 has run animate().
InitPipeline ==
    /\ tick = "idle"
    /\ tickCalls = <<>>
    /\ script = 0

\* The monolith's refs, DemoSim.tsx 46-49, built with MAX_FREQ_SCALE = scale.
NewDemoSim(scale) ==
    /\ demoScale = scale
    /\ demoActiveNotes = <<>>
    /\ demoConfirmedNotes = <<>>
    /\ demoLanes = [i \in 0..(NOTES_TO_SHOW - 1) |-> null]

\* The monolith with its own MAX_FREQ_SCALE (DemoSim.tsx 13).
InitDemo == NewDemoSim(<<DEMO_MAX_FREQ_SCALE_NUM, DEMO_MAX_FREQ_SCALE_DEN>>)

Init ==
    /\ InitRecorder /\ InitDetector /\ InitLanes /\ InitMapper /\ InitPlayer /\ InitEngine
    /\ InitPipeline /\ InitDemo

\* The caller of handlePlayRecording (part_001 124-127) holds the returned array
\* in a local that is gone when the next handler runs.
NextRecorder ==
    \/ Start /\ returned' = <<>> /\ UNCHANGED pipelineVars
    \/ Stop /\ returned' = <<>> /\ UNCHANGED pipelineVars
    \/ \E currentNotes \in OrderedSets(RecorderNotes) :
           Update(currentNotes) /\ returned' = <<>> /\ UNCHANGED pipelineVars
    \/ GetRecording
    \/ Tick /\ returned' = <<>>

SpecRecorder == Init /\ [][NextRecorder]_vars

\* A recorder that is started early enough for MaxClock to reach the end of
\* the session, never stopped by its caller, and fed, like the recorder of
\* animate() (part_001 83-84), an update() on every animation frame for as long
\* as the clock runs.  The sets it is fed keep the events and the tracked notes
\* together within MaxEvents, so the bound never holds an update() back.
StartSession ==
    /\ clock + maxDuration <= MaxClock
    /\ Start
    /\ returned' = <<>>
    /\ UNCHANGED pipelineVars

UpdateSession ==
    \E currentNotes \in OrderedSets(RecorderNotes) :
        /\ Update(currentNotes)
        /\ Len(recordedNotes') + Len(activeNotes') <= MaxEvents
        /\ returned' = <<>>
        /\ UNCHANGED pipelineVars

ClockAdvances == Tick /\ returned' = <<>>

NextSession ==
    \/ StartSession
    \/ UpdateSession
    \/ ClockAdvances

SpecSession ==
    /\ Init
    /\ [][NextSession]_vars
    /\ WF_vars(ClockAdvances)
    /\ WF_vars(UpdateSession)

---------------------------------------------------------------------------
(* NoteDetector *)

\* A frequency is held as an integer number of 1/FFT_SIZE Hz: bin i of a
\* frame sampled at sampleRate has frequency i * sampleRate / FFT_SIZE Hz,
\* that is i * sampleRate units.
\*
\* SemitoneFloor[m + 1], m in 0..128, is the least frequency (in those units,
\* rounded up to a whole unit) with Math.round(12 * log2(f / 440)) + 69 >= m,
\* that is 440 * 2^((m - 69.5) / 12) * FFT_SIZE.
SemitoneFloor ==
    << 16268, 17235, 18260, 19346, 20496, 21715, 23006, 24374,
       25823, 27359, 28986, 30709, 32535, 34470, 36520, 38691,
       40992, 43429, 46012, 48748, 51646, 54717, 57971, 61418,
       65070, 68939, 73039, 77382, 81983, 86858, 92023, 97495,
       103292, 109434, 115941, 122835, 130139, 137878, 146077, 154763,
       163965, 173715, 184045, 194989, 206583, 218867, 231882, 245670,
       260278, 275755, 292153, 309525, 327930, 347430, 368089, 389977,
       413166, 437734, 463763, 491340, 520556, 551510, 584305, 619049,
       655860, 694859, 736177, 779953, 826331, 875467, 927525, 982679,
       1041112, 1103020, 1168609, 1238098, 1311719, 1389718, 1472354, 1559905,
       1652662, 1750934, 1855050, 1965357, 2082223, 2206039, 2337217, 2476195,
       2623437, 2779435, 2944708, 3119810, 3305323, 3501868, 3710100, 3930714,
       4164446, 4412077, 4674433, 4952389, 5246873, 5558869, 5889416, 6239619,
       6610646, 7003735, 7420199, 7861427, 8328892, 8824154, 9348865, 9904777,
       10493746, 11117737, 11778832, 12479237, 13221291, 14007470, 14840398, 15722854,
       16657783, 17648307, 18697729, 19809554, 20987492, 22235473, 23557663, 24958474,
       26442582 >>

\* getNoteFromFrequency, lines 11-12: Math.round(12 * log2(f / 440)) + 69 for
\* a frequency f > 0; -1 stands for every index below 0 and 128 for every
\* index above 127.
\* The search for m halves the range lo..hi, which always satisfies
\* SemitoneFloor[lo + 1] <= frequency < SemitoneFloor[hi + 1].
RECURSIVE MidiBetween(_, _, _)
MidiBetween(frequency, lo, hi) ==
    IF hi = lo + 1 THEN lo
    ELSE LET mid == (lo + hi) \div 2
         IN  IF frequency < SemitoneFloor[mid + 1]
             THEN MidiBetween(frequency, lo, mid)
             ELSE MidiBetween(frequency, mid, hi)

MidiOf(frequency) ==
    IF frequency < SemitoneFloor[1] THEN -1
    ELSE IF frequency >= SemitoneFloor[129] THEN 128
    ELSE MidiBetween(frequency, 0, 128)

\* getNoteFromFrequency, line 14: midi < 0 || midi > 127.
OutOfRangeAbove128(midi) == midi < 0 \/ midi > 128
OutOfRange(midi) == midi < 0 \/ midi > 127

\* getNoteFromFrequency, line 16: Math.floor(midi / 12) - 1.
OctaveFromZero(midi) == midi \div 12
Octave(midi) == (midi \div 12) - 1

\* getNoteFromFrequency, lines 8-18.  A negative frequency makes Math.log
\* return NaN: both range tests of line 14 are then false, NOTE_NAMES[NaN] is
\* undefined and the octave is NaN.
getNoteFromFrequency(frequency) ==
    IF frequency = 0 THEN ""
    ELSE IF frequency < 0 THEN "undefinedNaN"
    ELSE LET midi == MidiOf(frequency)
         IN  IF OutOfRange(midi) THEN ""
             ELSE NOTE_NAMES[(midi % 12) + 1] \o ToString(Octave(midi))

\* A frame (dataArray) is a function from 0..length-1 to amplitudes, held as
\* its length and its non-zero part: [length, amp], amp a function on some of
\* the indexes, every other bin being 0.
FrameAt(frame, i) == IF i \in DOMAIN frame.amp THEN frame.amp[i] ELSE 0

\* detect, line 23: Math.floor(dataArray.length * MAX_FREQ_SCALE).
MaxBin(frame) == (frame.length * MAX_FREQ_SCALE_NUM) \div MAX_FREQ_SCALE_DEN

\* detect, line 26: the bin is a peak.
IsPeakAtThreshold(amp) == amp >= NOTE_THRESHOLD
IsPeak(amp) == amp > NOTE_THRESHOLD

\* The indexes of a set in ascending order.
RECURSIVE Ascending(_)
Ascending(S) ==
    IF S = {} THEN <<>>
    ELSE LET least == CHOOSE x \in S : \A y \in S : x <= y
         IN  <<least>> \o Ascending(S \ {least})

\* detect, lines 25-32: the peaks in bin order.  NOTE_THRESHOLD is not
\* negative, so only the non-zero bins can be peaks.
Peaks(frame, sampleRate) ==
    LET bins == Ascending({i \in DOMAIN frame.amp :
                              i >= 0 /\ i < MaxBin(frame) /\ IsPeak(FrameAt(frame, i))})
    IN  [k \in 1..Len(bins) |-> [freq |-> bins[k] * sampleRate, amp |-> FrameAt(frame, bins[k])]]

\* detect, line 33: peaks.sort((a, b) => b.amp - a.amp), a stable sort.
RECURSIVE SortByAmp(_)
SortByAmp(peaks) ==
    IF peaks = <<>> THEN <<>>
    ELSE LET top == CHOOSE k \in DOMAIN peaks :
                        /\ \A j \in DOMAIN peaks : peaks[j].amp <= peaks[k].amp
                        /\ \A j \in 1..(k-1) : peaks[j].amp < peaks[k].amp
         IN  <<peaks[top]>> \o
             SortByAmp([j \in 1..(Len(peaks) - 1) |-> IF j < top THEN peaks[j] ELSE peaks[j + 1]])

\* detect, line 34: peaks.slice(0, NOTES_TO_SHOW).
TopPeaksUnsliced(peaks) == peaks
TopPeaks(peaks) ==
    SubSeq(peaks, 1, IF Len(peaks) < NOTES_TO_SHOW THEN Len(peaks) ELSE NOTES_TO_SHOW)

\* detect, lines 36-40: the notes of the top peaks, each once, in their order.
RECURSIVE AddNotes(_, _)
AddNotes(notes, peaks) ==
    IF peaks = <<>> THEN notes
    ELSE LET note == getNoteFromFrequency(Head(peaks).freq)
         IN  AddNotes(IF note # "" /\ ~SetHas(notes, note) THEN Append(notes, note) ELSE notes,
                      Tail(peaks))

CurrentNotes(frame, sampleRate) ==
    AddNotes(<<>>, TopPeaks(SortByAmp(Peaks(frame, sampleRate))))

\* detect, line 49: the note has been seen for longer than the minimum.
LongEnoughInclusive(now, firstSeen) == now - firstSeen >= MIN_NOTE_DURATION
LongEnough(now, firstSeen) == now - firstSeen > MIN_NOTE_DURATION

\* detect, lines 46-56: the confirmed set, in the map's order.
ConfirmedWholeFrame(active, notes, now) == notes
Confirmed(active, notes, now) ==
    LET hits == SelectSeq(active, LAMBDA e : SetHas(notes, e.note) /\ LongEnough(now, e.start))
    IN  [k \in 1..Len(hits) |-> hits[k].note]

\* detect, lines 46-56: the entries left once the stopped notes are deleted.
StillSeenKeepsAll(active, notes) == active
StillSeen(active, notes) == SelectSeq(active, LAMBDA e : SetHas(notes, e.note))

\* detect, lines 59-63: the map after the notes new in this frame are added.
AddCandidatesNever(active, notes, now) == active
RECURSIVE AddCandidates(_, _, _)
AddCandidates(active, notes, now) ==
    IF notes = <<>> THEN active
    ELSE AddCandidates(IF ~MapHas(active, Head(notes))
                       THEN Append(active, [note |-> Head(notes), start |-> now])
                       ELSE active,
                       Tail(notes), now)

\* detect(dataArray, sampleRate, currentTimeMs), lines 20-66.
Detect(dataArray, sampleRate, now) ==
    \E notes \in {CurrentNotes(dataArray, sampleRate)} :
        /\ frameNotes' = notes
        /\ confirmedNotes' = Confirmed(detectorActiveNotes, notes, now)
        /\ detectorActiveNotes' = AddCandidates(StillSeen(detectorActiveNotes, notes), notes, now)
        /\ currentTimeMs' = now

\* The frames, sample rates and time steps detect() is fed.
FrameLength == FFT_SIZE \div 2
FrameBins == {20, 22}
FrameAmps == {0, 150}
Frames == {[length |-> FrameLength, amp |-> a] : a \in [FrameBins -> FrameAmps]}
SampleRates == {44100}
TimeSteps == {0, 1, 25}

\* What an observer of the detect() calls records of the call being made.
Observe(dataArray, sampleRate) ==
    /\ detectInput' = [dataArray |-> dataArray, sampleRate |-> sampleRate]
    /\ heard' = heard \cup Range(frameNotes')
    /\ reappeared' = {n \in Range(frameNotes') : n \in heard /\ ~SetHas(frameNotes, n)}
    /\ seenSince' = {[note |-> n,
                      start |-> IF SetHas(frameNotes, n)
                                THEN (CHOOSE e \in seenSince : e.note = n).start
                                ELSE currentTimeMs'] : n \in Range(frameNotes')}

\* One animation frame of a caller that feeds the detector alone.
DetectFrame ==
    \E dataArray \in Frames, sampleRate \in SampleRates, d \in TimeSteps :
        /\ currentTimeMs + d <= MaxTimeMs
        /\ Detect(dataArray, sampleRate, currentTimeMs + d)
        /\ Observe(dataArray, sampleRate)
        /\ UNCHANGED <<recorderVars, clock, returned, call, laneVars, mapperVars, playerVars, engineVars, pipelineVars, demoVars>>

NextDetector == DetectFrame

\* The recorder beside it is never started.
InitDetectorAlone == Init /\ maxDuration = MaxMaxDuration /\ maxNotes = Cardinality(RecorderNotes)

SpecDetector == InitDetectorAlone /\ [][NextDetector]_vars

\* Frames whose bins sit at the edges of what detect() scans: bin 0, a bin in
\* the middle, and either the last bin below Math.floor(length *
\* MAX_FREQ_SCALE) or the first one not below it, each at NOTE_THRESHOLD or
\* just above it.
EdgeBins == {{0, 20, MaxBin([length |-> FrameLength]) - 1},
             {0, 20, MaxBin([length |-> FrameLength])}}
EdgeAmps == {NOTE_THRESHOLD, NOTE_THRESHOLD + 1}
EdgeFrames == {[length |-> FrameLength, amp |-> a] : a \in UNION {[B -> EdgeAmps] : B \in EdgeBins}}
EdgeTimeSteps == {0, 26}

\* One animation frame of a caller that feeds the detector such frames.
DetectEdgeFrame ==
    \E dataArray \in EdgeFrames, sampleRate \in SampleRates, d \in EdgeTimeSteps :
        /\ currentTimeMs + d <= MaxTimeMs
        /\ Detect(dataArray, sampleRate, currentTimeMs + d)
        /\ Observe(dataArray, sampleRate)
        /\ UNCHANGED <<recorderVars, clock, returned, call, laneVars, mapperVars, playerVars, engineVars, pipelineVars, demoVars>>

NextPeaks == DetectEdgeFrame

SpecPeaks == InitDetectorAlone /\ [][NextPeaks]_vars

\* Frames with one peak more than detect() keeps: bin 0 and five bins next
\* to each other, two of them (20 and 21) within the same semitone, each at
\* one of two amplitudes above NOTE_THRESHOLD, at most two at the larger.
CrowdedBins == {0, 19, 20, 21, 22, 23}
CrowdedAmps == {NOTE_THRESHOLD + 1, NOTE_THRESHOLD + 50}
CrowdedFrames ==
    {[length |-> FrameLength, amp |-> a] :
        a \in {b \in [CrowdedBins -> CrowdedAmps] :
                  Cardinality({i \in CrowdedBins : b[i] > NOTE_THRESHOLD + 1}) <= 2}}
CrowdedTimeSteps == {0, MIN_NOTE_DURATION + 1}

\* One animation frame of a caller that feeds the detector such frames.
DetectCrowdedFrame ==
    \E dataArray \in CrowdedFrames, sampleRate \in SampleRates, d \in CrowdedTimeSteps :
        /\ currentTimeMs + d <= MaxTimeMs
        /\ Detect(dataArray, sampleRate, currentTimeMs + d)
        /\ Observe(dataArray, sampleRate)
        /\ UNCHANGED <<recorderVars, clock, returned, call, laneVars, mapperVars, playerVars, engineVars, pipelineVars, demoVars>>

NextTopK == DetectCrowdedFrame

SpecTopK == InitDetectorAlone /\ [][NextTopK]_vars

\* The frequencies getNoteFromFrequency is called with on its own: each
\* semitone boundary and the unit below it, 0, negative values, 440 Hz, and
\* bins of a frame sampled at 44100 Hz.
MapperFrequencies ==
    {SemitoneFloor[k] - d : k \in DOMAIN SemitoneFloor, d \in {0, 1}}
    \cup {0, -1, -440 * FFT_SIZE, 440 * FFT_SIZE}
    \cup {i * 44100 : i \in {1, 20, 306}}

\* A call of getNoteFromFrequency(frequency).
CallGetNoteFromFrequency ==
    \E f \in MapperFrequencies :
        /\ mapperFrequency' = f
        /\ mapperNote' = getNoteFromFrequency(f)
        /\ UNCHANGED <<recorderVars, clock, returned, call, detectorVars, laneVars, playerVars, engineVars, pipelineVars, demoVars>>

NextMapper == CallGetNoteFromFrequency

SpecMapper == InitDetectorAlone /\ [][NextMapper]_vars

---------------------------------------------------------------------------
(* NoteVisualizerController (Player.ts 78-157)                              *)
(* The lanes array keeps the source's indices 0..NOTES_TO_SHOW-1.  Of the   *)
(* document the controller draws into, the model keeps the elements the     *)
(* last update() created: one createNoteElement call each.                  *)

\* update, line 114: the lane holds a note and confirmedNotes has it.
Matched(ls, i, confirmed) == ls[i] # null /\ SetHas(confirmed, ls[i])

\* The lanes from index 0 up, as a sequence.
LaneSeq(ls) == [k \in 1..NOTES_TO_SHOW |-> ls[k - 1]]

\* update, lines 108-119: nextLanes after the loop over the lanes.
KeepLanesNeverVacates(ls, confirmed) == ls
KeepLanesCompacted(ls, confirmed) ==
    LET kept == SelectSeq(LaneSeq(ls), LAMBDA n : n # null /\ SetHas(confirmed, n))
    IN  [i \in DOMAIN ls |-> IF i < Len(kept) THEN kept[i + 1] ELSE null]
KeepLanes(ls, confirmed) ==
    [i \in DOMAIN ls |-> IF Matched(ls, i, confirmed) THEN ls[i] ELSE null]

\* update, lines 109-116: matchedNotes after the loop over the lanes.
MatchedNotes(ls, confirmed) ==
    {ls[i] : i \in {j \in DOMAIN ls : Matched(ls, j, confirmed)}}

\* update, line 123: the note has no lane yet.
NeedsLaneAlways(matchedNotes, note) == TRUE
NeedsLane(matchedNotes, note) == note \notin matchedNotes

\* update, line 124: nextLanes.indexOf(null), -1 when no lane is null.
IndexOfNullOrFirst(nextLanes) ==
    IF \E i \in DOMAIN nextLanes : nextLanes[i] = null
    THEN CHOOSE i \in DOMAIN nextLanes :
             nextLanes[i] = null /\ \A j \in DOMAIN nextLanes : nextLanes[j] = null => i <= j
    ELSE 0
IndexOfNullHighest(nextLanes) ==
    IF \E i \in DOMAIN nextLanes : nextLanes[i] = null
    THEN CHOOSE i \in DOMAIN nextLanes :
             nextLanes[i] = null /\ \A j \in DOMAIN nextLanes : nextLanes[j] = null => j <= i
    ELSE -1
IndexOfNull(nextLanes) ==
    IF \E i \in DOMAIN nextLanes : nextLanes[i] = null
    THEN CHOOSE i \in DOMAIN nextLanes :
             nextLanes[i] = null /\ \A j \in DOMAIN nextLanes : nextLanes[j] = null => i <= j
    ELSE -1

\* update, lines 122-130: the loop over confirmed; elements collects the
\* createNoteElement(note, emptyIndex, containerWidth) calls (135-149).
RECURSIVE AssignLanes(_, _, _, _)
AssignLanes(nextLanes, elements, matchedNotes, notes) ==
    IF notes = <<>> THEN [lanes |-> nextLanes, elements |-> elements]
    ELSE LET note == Head(notes)
             emptyIndex == IndexOfNull(nextLanes)
         IN  IF NeedsLane(matchedNotes, note) /\ emptyIndex # -1
             THEN AssignLanes([nextLanes EXCEPT ![emptyIndex] = note],
                              Append(elements, [note |-> note, laneIndex |-> emptyIndex]),
                              matchedNotes, Tail(notes))
             ELSE AssignLanes(nextLanes, elements, matchedNotes, Tail(notes))

\* What laneCall records of an update(confirmedNotes) call: its argument and
\* the number of lanes whose note the argument does not have.
LaneCall(confirmed) ==
    [op |-> "update", notes |-> confirmed,
     vacated |-> Cardinality({i \in DOMAIN lanes :
                                  lanes[i] # null /\ ~SetHas(confirmed, lanes[i])})]

\* NoteVisualizerController.update(confirmedNotes), lines 89-133.
NoteVisualizerUpdate(confirmed) ==
    \E done \in {AssignLanes(KeepLanes(lanes, confirmed), <<>>,
                             MatchedNotes(lanes, confirmed), confirmed)} :
        /\ lanes' = done.lanes
        /\ entered' = done.elements
        /\ laneCall' = LaneCall(confirmed)

\* NoteVisualizerController.clear(), lines 151-156.
NoteVisualizerClear ==
    /\ lanes' = [i \in DOMAIN lanes |-> null]
    /\ entered' = <<>>
    /\ laneCall' = [op |-> "clear", notes |-> <<>>, vacated |-> 0]

\* The confirmed sets update() is fed, over one note more than there are
\* lanes: the sets of at least NOTES_TO_SHOW notes in the order of
\* LaneOrder, the whole of it backwards, and the sets of at most two of its
\* first three notes in any order.
LaneOrder == <<"C4", "D4", "E4", "F4", "G4", "A4">>
LaneInputs ==
    {SelectSeq(LaneOrder, LAMBDA n : n \in S) :
         S \in {T \in SUBSET Range(LaneOrder) : Cardinality(T) >= NOTES_TO_SHOW}}
    \cup {[k \in DOMAIN LaneOrder |-> LaneOrder[Len(LaneOrder) + 1 - k]]}
    \cup {s \in UNION {[1..n -> {LaneOrder[1], LaneOrder[2], LaneOrder[3]}] : n \in 0..2} :
              \A i, j \in DOMAIN s : i # j => s[i] # s[j]}

UpdateLanes ==
    \E confirmed \in LaneInputs :
        /\ NoteVisualizerUpdate(confirmed)
        /\ UNCHANGED <<recorderVars, clock, returned, call, detectorVars, mapperVars, playerVars, engineVars, pipelineVars, demoVars>>

ClearLanes ==
    /\ NoteVisualizerClear
    /\ UNCHANGED <<recorderVars, clock, returned, call, detectorVars, mapperVars, playerVars, engineVars, pipelineVars, demoVars>>

NextLanes == UpdateLanes \/ ClearLanes

SpecLanes == InitDetectorAlone /\ [][NextLanes]_vars

---------------------------------------------------------------------------
(* Player (Player.ts 1-72)                                                  *)
(* Times are integer milliseconds: the context's currentTime, an event's    *)
(* startTime and duration, and the 0.05 s of the envelope's ramps (50).     *)

\* The octaves a note name is written with in the names play() is given.
PlayerOctaves == (-2)..10

\* getFrequencyFromNote, line 7: note.match(/^([A-G]#?)(-?\d+)$/): the
\* letter with its sharp and the octave the name splits into, for octaves
\* written as PlayerOctaves are; no match gives the empty set.
Match(note) ==
    {m \in {l \o sharp : l \in {"A", "B", "C", "D", "E", "F", "G"}, sharp \in {"", "#"}}
               \X PlayerOctaves :
        note = m[1] \o ToString(m[2])}

\* Array.prototype.indexOf on NOTE_NAMES: 0-based, -1 when absent.
IndexOfName(name) ==
    IF \E i \in DOMAIN NOTE_NAMES : NOTE_NAMES[i] = name
    THEN (CHOOSE i \in DOMAIN NOTE_NAMES : NOTE_NAMES[i] = name) - 1
    ELSE -1

\* 440 * Math.pow(2, (midi - 69) / 12) in units of 1/FFT_SIZE Hz, rounded to
\* a whole unit, for midi from -12 (entry 1) to 143.
NoteFrequency ==
    <<
       8372, 8870, 9397, 9956, 10548, 11175, 11840, 12544,
       13290, 14080, 14917, 15804, 16744, 17740, 18795, 19912,
       21096, 22351, 23680, 25088, 26580, 28160, 29834, 31609,
       33488, 35479, 37589, 39824, 42192, 44701, 47359, 50175,
       53159, 56320, 59669, 63217, 66976, 70959, 75178, 79649,
       84385, 89402, 94719, 100351, 106318, 112640, 119338, 126434,
       133952, 141918, 150356, 159297, 168769, 178805, 189437, 200702,
       212636, 225280, 238676, 252868, 267905, 283835, 300713, 318594,
       337539, 357610, 378874, 401403, 425272, 450560, 477352, 505737,
       535809, 567670, 601425, 637188, 675077, 715219, 757749, 802807,
       850544, 901120, 954703, 1011473, 1071618, 1135340, 1202851, 1274376,
       1350154, 1430439, 1515497, 1605613, 1701088, 1802240, 1909407, 2022946,
       2143237, 2270680, 2405702, 2548752, 2700309, 2860878, 3030994, 3211227,
       3402176, 3604480, 3818814, 4045892, 4286473, 4541360, 4811404, 5097505,
       5400618, 5721755, 6061989, 6422453, 6804352, 7208960, 7637627, 8091784,
       8572947, 9082720, 9622807, 10195009, 10801236, 11443511, 12123977, 12844906,
       13608704, 14417920, 15275254, 16183568, 17145893, 18165441, 19245614, 20390018,
       21602472, 22887021, 24247954, 25689813, 27217409, 28835840, 30550508, 32367136,
       34291786, 36330882, 38491228, 40780036, 43204943, 45774043, 48495909, 51379626,
       54434817, 57671680, 61101017, 64734272
    >>

\* getFrequencyFromNote, line 22: (octave + 1) * 12 + noteIndex.
MidiOfName(octave, noteIndex) == (octave + 1) * 12 + noteIndex

\* getFrequencyFromNote(note), lines 6-24.
getFrequencyFromNote(note) ==
    IF Match(note) = {} THEN 0
    ELSE LET m == CHOOSE m \in Match(note) : TRUE
             noteIndex == IndexOfName(m[1])
         IN  IF noteIndex = -1 THEN 0
             ELSE NoteFrequency[MidiOfName(m[2], noteIndex) + 13]

\* play, line 48: the event is skipped.
Skipped(freq) == freq <= 0

\* play, lines 59-66: the times of the four control points of the gain
\* envelope of an event that starts at toneStart and lasts duration.
Envelope(toneStart, duration) ==
    [start |-> toneStart,
     attackEnd |-> toneStart + 50,
     releaseStart |-> toneStart + duration - 50,
     end |-> toneStart + duration]

\* AudioParam.setValueAtTime, linearRampToValueAtTime and
\* AudioScheduledSourceNode.start, stop throw a RangeError for a negative
\* time.
Throws(envelope) ==
    envelope.start < 0 \/ envelope.attackEnd < 0 \/ envelope.releaseStart < 0 \/ envelope.end < 0

\* play, lines 46-70: recording.forEach from item k on, with now read at
\* line 44.  An oscillator counts as a tone once osc.start (68) is reached;
\* an exception leaves forEach and play().
RECURSIVE Schedule(_, _, _, _, _)
Schedule(started, id, recording, k, now) ==
    IF k > Len(recording) THEN [tones |-> started, status |-> "done"]
    ELSE LET item == recording[k]
             freq == getFrequencyFromNote(item.note)
             envelope == Envelope(now + item.startTime, item.duration)
         IN  IF Skipped(freq) THEN Schedule(started, id, recording, k + 1, now)
             ELSE IF Throws(envelope) THEN [tones |-> started, status |-> "threw"]
             ELSE Schedule(Append(started, [play |-> id, item |-> k, frequency |-> freq,
                                            envelope |-> envelope]),
                           id, recording, k + 1, now)

\* The events and the recordings play() is given: a short event that starts
\* at once, a long one, a name the pattern of line 7 does not match, a short
\* event that starts later, and a name whose letter is not in NOTE_NAMES;
\* a recording is up to three of them in a row.
PlayEvents ==
    <<[note |-> "G9", startTime |-> 0, duration |-> 30],
      [note |-> "A4", startTime |-> 0, duration |-> 200],
      [note |-> "undefinedNaN", startTime |-> 0, duration |-> 200],
      [note |-> "C-1", startTime |-> 60, duration |-> 30],
      [note |-> "E#4", startTime |-> 10, duration |-> 200]>>
PlayRecordings ==
    {SubSeq(PlayEvents, i, j) : i \in 1..(Len(PlayEvents) + 1), j \in 0..Len(PlayEvents)}
        \cap UNION {[1..n -> Range(PlayEvents)] : n \in 0..3}

\* Player.getContext(), lines 31-36: the context, made on the first call; a
\* new context is running or suspended, as the browser decides.
GetContext == IF playerContext = "null" THEN {"suspended", "running"} ELSE {playerContext}

\* play(recording), lines 38-71, up to the await of line 41 or, when the
\* context is running, to its end.
Play(recording) ==
    /\ Len(plays) < MaxPlays
    /\ \E state \in GetContext :
           IF state = "suspended"
           THEN /\ playerContext' = state
                /\ plays' = Append(plays, [recording |-> recording, status |-> "waiting"])
                /\ UNCHANGED <<playerTime, tones>>
           ELSE \E done \in {Schedule(tones, Len(plays) + 1, recording, 1, playerTime)} :
                    /\ playerContext' = state
                    /\ plays' = Append(plays, [recording |-> recording, status |-> done.status])
                    /\ tones' = done.tones
                    /\ UNCHANGED playerTime

\* ctx.resume() is fulfilled: the context is running and the earliest
\* play() call waiting at line 41 goes on to its end.
Resumed ==
    /\ \E id \in DOMAIN plays : plays[id].status = "waiting"
    /\ LET id == CHOOSE i \in DOMAIN plays :
                     /\ plays[i].status = "waiting"
                     /\ \A j \in DOMAIN plays : plays[j].status = "waiting" => i <= j
       IN  \E done \in {Schedule(tones, id, plays[id].recording, 1, playerTime)} :
               /\ playerContext' = "running"
               /\ plays' = [plays EXCEPT ![id].status = done.status]
               /\ tones' = done.tones
               /\ UNCHANGED playerTime

\* The running context's currentTime advances.
PlayerTick ==
    /\ playerContext = "running"
    /\ \A id \in DOMAIN plays : plays[id].status # "waiting"
    /\ playerTime + PlayerStep <= MaxPlayerTime
    /\ playerTime' = playerTime + PlayerStep
    /\ UNCHANGED <<playerContext, plays, tones>>

NextPlayer ==
    \/ \E recording \in PlayRecordings :
           Play(recording) /\ UNCHANGED <<recorderVars, clock, returned, call, detectorVars, laneVars, mapperVars, engineVars, pipelineVars, demoVars>>
    \/ Resumed /\ UNCHANGED <<recorderVars, clock, returned, call, detectorVars, laneVars, mapperVars, engineVars, pipelineVars, demoVars>>
    \/ PlayerTick /\ UNCHANGED <<recorderVars, clock, returned, call, detectorVars, laneVars, mapperVars, engineVars, pipelineVars, demoVars>>

SpecPlayer == InitDetectorAlone /\ [][NextPlayer]_vars

---------------------------------------------------------------------------
(* AudioEngine (AudioEngine.ts 5-56)                                        *)
(* A start() call is "awaiting" at line 15 until getUserMedia settles; it   *)
(* ends "returned" (line 12), "fulfilled" or "rejected" (line 27).  With    *)
(* each call starts keeps whether an earlier call had been rejected by then. *)

\* start, line 12: if (this.audioContext) return.
AlreadyStarted == engine.audioContext # 0

\* start(), lines 11-15: up to the await of getUserMedia.
EngineStart ==
    /\ Len(starts) < MaxStarts
    /\ starts' = Append(starts, [status |-> IF AlreadyStarted THEN "returned" ELSE "awaiting",
                                 afterFailure |-> \E id \in DOMAIN starts :
                                                     starts[id].status = "rejected"])
    /\ UNCHANGED <<engine, openStreams, openContexts>>

\* start(), lines 15-24, once getUserMedia has given call id a stream.
Granted(id) ==
    /\ starts[id].status = "awaiting"
    /\ engine' = [stream |-> id, audioContext |-> id, analyser |-> id, dataArray |-> id]
    /\ openStreams' = openStreams \cup {id}
    /\ openContexts' = openContexts \cup {id}
    /\ starts' = [starts EXCEPT ![id].status = "fulfilled"]

\* start(), lines 25-28, once getUserMedia has refused call id a stream: the
\* error is logged and thrown again.
DeniedSwallowed(id) ==
    /\ starts[id].status = "awaiting"
    /\ starts' = [starts EXCEPT ![id].status = "fulfilled"]
    /\ UNCHANGED <<engine, openStreams, openContexts>>
Denied(id) ==
    /\ starts[id].status = "awaiting"
    /\ starts' = [starts EXCEPT ![id].status = "rejected"]
    /\ UNCHANGED <<engine, openStreams, openContexts>>

\* stop(), lines 31-42.
EngineStop ==
    /\ openStreams' = IF engine.stream # 0 THEN openStreams \ {engine.stream} ELSE openStreams
    /\ openContexts' = IF engine.audioContext # 0 THEN openContexts \ {engine.audioContext}
                       ELSE openContexts
    /\ engine' = [stream |-> 0, audioContext |-> 0, analyser |-> 0, dataArray |-> 0]
    /\ UNCHANGED starts

\* getFrequencyData(), line 45: the call returns null.
NoFrequencyData == engine.analyser = 0 \/ engine.dataArray = 0

NextEngine ==
    \/ EngineStart /\ UNCHANGED <<recorderVars, clock, returned, call, detectorVars, laneVars, mapperVars, playerVars, pipelineVars, demoVars>>
    \/ \E id \in DOMAIN starts :
           Granted(id) /\ UNCHANGED <<recorderVars, clock, returned, call, detectorVars, laneVars, mapperVars, playerVars, pipelineVars, demoVars>>
    \/ \E id \in DOMAIN starts :
           Denied(id) /\ UNCHANGED <<recorderVars, clock, returned, call, detectorVars, laneVars, mapperVars, playerVars, pipelineVars, demoVars>>
    \/ EngineStop /\ UNCHANGED <<recorderVars, clock, returned, call, detectorVars, laneVars, mapperVars, playerVars, pipelineVars, demoVars>>

SpecEngine == InitDetectorAlone /\ [][NextEngine]_vars

---------------------------------------------------------------------------
(* The component that owns the engine, the detector, the lane assignor and *)
(* the recorder (part_001 40-130).  animate() runs to its end before any   *)
(* handler does; its three calls are three steps, and tick says which one  *)
(* is next.  Every time here is in milliseconds on the one clock.          *)

\* The times of the animation frames and the frames the analyser gives.
PipelineTimes == {0, 10, 30, 60, 90, 120}
PipelineFrames == {f \in Frames : f.amp[22] > 0 => f.amp[20] > 0}

\* setStarted(true), line 50: some start() call was fulfilled.
Started == \E id \in DOMAIN starts : starts[id].status = "fulfilled"

\* The frames of the scenario, one for each of ScenarioTimes: a peak of
\* amplitude 150 in the bin of A4 in all but the last, nothing in the last.
ScenarioTimes == <<0, 10, 30, 60, 90, 120>>
ScenarioPeak == [length |-> FrameLength, amp |-> [b \in FrameBins |-> IF b = 20 THEN 150 ELSE 0]]
ScenarioSilence == [length |-> FrameLength, amp |-> [b \in FrameBins |-> 0]]
ScenarioFrame(k) == IF k < Len(ScenarioTimes) THEN ScenarioPeak ELSE ScenarioSilence

\* How far the ticks have followed the scenario once this one has read
\* dataArray: the k-th tick in a row with the k-th time and the k-th frame,
\* in a session started at time 0; 0 when this tick does not continue it.
Followed(dataArray) ==
    IF /\ isRecording /\ startTime = 0
       /\ \E k \in DOMAIN ScenarioTimes :
              /\ k = 1 \/ script = k - 1
              /\ clock = ScenarioTimes[k]
              /\ dataArray = ScenarioFrame(k)
    THEN CHOOSE k \in DOMAIN ScenarioTimes :
              /\ k = 1 \/ script = k - 1
              /\ clock = ScenarioTimes[k]
              /\ dataArray = ScenarioFrame(k)
    ELSE 0

\* What animate() has called so far.
Called(op, notes) == Append(tickCalls, [op |-> op, notes |-> notes])

\* startAudio, lines 47-54: the button is there while started is false.  It
\* is clicked once here; SpecEngine has the clicks that follow a first one.
StartAudio ==
    /\ tick = "idle"
    /\ ~Started
    /\ starts = <<>>
    /\ EngineStart
    /\ UNCHANGED <<recorderVars, clock, returned, call, detectorVars, laneVars, mapperVars, playerVars, pipelineVars, demoVars>>

\* startAudio, lines 49-50: start() is fulfilled and started becomes true.
AudioGranted ==
    \E id \in DOMAIN starts :
        /\ tick = "idle"
        /\ Granted(id)
        /\ UNCHANGED <<recorderVars, clock, returned, call, detectorVars, laneVars, mapperVars, playerVars, pipelineVars, demoVars>>

\* startAudio, lines 51-53: start() is rejected and the alert is shown.
AudioDenied ==
    \E id \in DOMAIN starts :
        /\ tick = "idle"
        /\ Denied(id)
        /\ UNCHANGED <<recorderVars, clock, returned, call, detectorVars, laneVars, mapperVars, playerVars, pipelineVars, demoVars>>

\* The cleanup of the effect, lines 104-109, when the effect is run again.
EffectCleanup ==
    /\ tick = "idle"
    /\ Started
    /\ ~NoFrequencyData
    /\ EngineStop
    /\ UNCHANGED <<recorderVars, clock, returned, call, detectorVars, laneVars, mapperVars, playerVars, pipelineVars, demoVars>>

\* Time passes between two animation frames.
TimePasses(times) ==
    \E t \in times :
        /\ tick = "idle"
        /\ t > clock
        /\ clock' = t
        /\ UNCHANGED <<recorderVars, returned, call, detectorVars, laneVars, mapperVars, playerVars, engineVars, pipelineVars, demoVars>>

PipelineTime == TimePasses(PipelineTimes)

\* animate(), lines 65-78: without a frame it returns, with one detect() runs.
AnimateDetectOn(frames) ==
    /\ tick = "idle"
    /\ Started
    /\ IF NoFrequencyData
       THEN /\ tickCalls' = <<[op |-> "getFrequencyData", notes |-> <<>>]>>
            /\ script' = 0
            /\ UNCHANGED <<tick, detectorVars>>
       ELSE \E dataArray \in frames, sampleRate \in SampleRates :
                /\ Detect(dataArray, sampleRate, clock)
                /\ UNCHANGED <<detectInput, heard, reappeared, seenSince>>
                /\ tick' = "detected"
                /\ tickCalls' = <<[op |-> "getFrequencyData", notes |-> <<>>],
                                  [op |-> "detect", notes |-> confirmedNotes']>>
                /\ script' = Followed(dataArray)
    /\ UNCHANGED <<recorderVars, clock, returned, call, laneVars, mapperVars, playerVars, engineVars, demoVars>>

AnimateDetect == AnimateDetectOn(PipelineFrames)

\* animate(), line 80.
AnimateDraw ==
    /\ tick = "detected"
    /\ NoteVisualizerUpdate(confirmedNotes)
    /\ tick' = "drawn"
    /\ tickCalls' = Called("noteVisualizer.update", confirmedNotes)
    /\ UNCHANGED <<recorderVars, clock, returned, call, detectorVars, mapperVars, playerVars, engineVars, demoVars, script>>

\* animate(), line 83.
RecorderActiveAlways == TRUE
RecorderActive == isRecording

\* animate(), lines 83-89.
AnimateRecord ==
    /\ tick = "drawn"
    /\ tick' = "idle"
    /\ IF RecorderActive
       THEN /\ Update(confirmedNotes)
            /\ tickCalls' = Called("recorder.update", confirmedNotes)
            /\ script' = IF script = Len(ScenarioTimes) THEN script + 1 ELSE script
            /\ UNCHANGED returned
       ELSE /\ UNCHANGED <<recorderVars, clock, returned, call, detectorVars, laneVars, mapperVars, playerVars, engineVars, demoVars, tickCalls, script>>

\* handleStartRecording, lines 112-116.
HandleStartRecording ==
    /\ tick = "idle"
    /\ Started
    /\ ~isRecording
    /\ Start
    /\ script' = 0
    /\ UNCHANGED <<returned, tick, tickCalls>>

\* handleStopRecording, lines 118-122.
HandleStopRecording ==
    /\ tick = "idle"
    /\ isRecording
    /\ Stop
    /\ script' = 0
    /\ UNCHANGED <<returned, tick, tickCalls>>

\* new Recorder(RECORD_DURATION_MS, NOTES_TO_RECORD), line 44.
InitComponent ==
    /\ NewRecorder(RECORD_DURATION_MS, NOTES_TO_RECORD)
    /\ InitDetector /\ InitLanes /\ InitMapper /\ InitPlayer /\ InitEngine /\ InitPipeline
    /\ InitDemo

NextPipeline ==
    \/ StartAudio
    \/ AudioGranted
    \/ AudioDenied
    \/ EffectCleanup
    \/ PipelineTime
    \/ AnimateDetect
    \/ AnimateDraw
    \/ AnimateRecord
    \/ HandleStartRecording
    \/ HandleStopRecording

SpecPipeline == InitComponent /\ [][NextPipeline]_vars

\* The component with the display alone at work: the microphone is granted,
\* no recording is started, and the analyser gives frames with peaks at up to
\* one bin more than there are lanes, each bin of another note: none, or
\* at least NOTES_TO_SHOW of them, the amplitudes rising or falling with the
\* bin.
DisplayBins == <<18, 19, 20, 22, 23, 24>>
DisplayTimes == {0, 60, 120, 180}
DisplayAmp(k, profile) == IF profile = "rising" THEN 150 + k ELSE 200 - k
DisplayFrames ==
    {[length |-> FrameLength,
      amp |-> [b \in {DisplayBins[k] : k \in S} |->
                  DisplayAmp(CHOOSE k \in S : DisplayBins[k] = b, profile)]] :
        S \in {T \in SUBSET DOMAIN DisplayBins :
                  T = {} \/ Cardinality(T) >= NOTES_TO_SHOW},
        profile \in {"rising", "falling"}}

DisplayTime == TimePasses(DisplayTimes)

\* Each animation frame comes at a later time than the one before it.
DisplayDetect ==
    /\ tickCalls = <<>> \/ currentTimeMs < clock
    /\ AnimateDetectOn(DisplayFrames)

NextDisplay ==
    \/ StartAudio
    \/ AudioGranted
    \/ DisplayTime
    \/ DisplayDetect
    \/ AnimateDraw
    \/ AnimateRecord

SpecDisplay == InitComponent /\ [][NextDisplay]_vars

---------------------------------------------------------------------------
(* The monolithic DemoSim (src/src/DemoSim.tsx): the detection and the lane *)
(* code inside its animate(), lines 180-295, on its own refs.               *)

\* getNoteFromFrequency, DemoSim.tsx 17-27.
DemoGetNoteFromFrequency(frequency) ==
    IF frequency = 0 THEN ""
    ELSE IF frequency < 0 THEN "undefinedNaN"
    ELSE LET midi == MidiOf(frequency)
         IN  IF midi < 0 \/ midi > 127 THEN ""
             ELSE NOTE_NAMES[(midi % 12) + 1] \o ToString((midi \div 12) - 1)

\* animate, line 187: Math.floor(dataArray.length * MAX_FREQ_SCALE).
DemoMaxBin(frame) == (frame.length * demoScale[1]) \div demoScale[2]

\* animate, lines 189-196: the peaks in bin order.
DemoPeaks(frame, sampleRate) ==
    LET bins == Ascending({i \in DOMAIN frame.amp :
                              i >= 0 /\ i < DemoMaxBin(frame) /\ frame.amp[i] > NOTE_THRESHOLD})
    IN  [k \in 1..Len(bins) |-> [freq |-> bins[k] * sampleRate, amp |-> frame.amp[bins[k]]]]

\* animate, lines 197-198: sort by amplitude, then slice(0, NOTES_TO_SHOW).
DemoTopPeaks(frame, sampleRate) ==
    LET sorted == SortByAmp(DemoPeaks(frame, sampleRate))
    IN  SubSeq(sorted, 1, IF Len(sorted) < NOTES_TO_SHOW THEN Len(sorted) ELSE NOTES_TO_SHOW)

\* animate, lines 200-204: currentNotes, a Set in insertion order.
RECURSIVE DemoCurrentNotes(_, _)
DemoCurrentNotes(notes, topPeaks) ==
    IF topPeaks = <<>> THEN notes
    ELSE LET note == DemoGetNoteFromFrequency(Head(topPeaks).freq)
         IN  DemoCurrentNotes(IF note = "" \/ SetHas(notes, note) THEN notes
                              ELSE Append(notes, note),
                              Tail(topPeaks))

\* animate, lines 207-221: the loop over the map: what it confirms and what
\* it leaves in the map.
RECURSIVE DemoDebounce(_, _, _, _, _)
DemoDebounce(entries, currentNotes, now, confirmed, kept) ==
    IF entries = <<>> THEN [confirmed |-> confirmed, kept |-> kept]
    ELSE LET e == Head(entries)
         IN  IF SetHas(currentNotes, e.note)
             THEN DemoDebounce(Tail(entries), currentNotes, now,
                               IF now - e.start > MIN_NOTE_DURATION
                               THEN Append(confirmed, e.note) ELSE confirmed,
                               Append(kept, e))
             ELSE DemoDebounce(Tail(entries), currentNotes, now, confirmed, kept)

\* animate, lines 223-228: the notes new in this frame enter the map.
RECURSIVE DemoAddNew(_, _, _)
DemoAddNew(active, currentNotes, now) ==
    IF currentNotes = <<>> THEN active
    ELSE DemoAddNew(IF MapHas(active, Head(currentNotes)) THEN active
                    ELSE Append(active, [note |-> Head(currentNotes), start |-> now]),
                    Tail(currentNotes), now)

\* animate, lines 252-266: nextLanes and matchedNotes after the first loop.
DemoKeep(ls, confirmed) ==
    [nextLanes |-> [i \in DOMAIN ls |->
                       IF ls[i] # null /\ SetHas(confirmed, ls[i]) THEN ls[i] ELSE null],
     matchedNotes |-> {ls[i] : i \in {j \in DOMAIN ls :
                                           ls[j] # null /\ SetHas(confirmed, ls[j])}}]

\* animate, lines 269-293: each confirmed note without a lane takes the first
\* null lane, if there is one.
RECURSIVE DemoAssign(_, _, _)
DemoAssign(nextLanes, matchedNotes, notes) ==
    IF notes = <<>> THEN nextLanes
    ELSE LET free == {i \in DOMAIN nextLanes : nextLanes[i] = null}
         IN  IF Head(notes) \notin matchedNotes /\ free # {}
             THEN DemoAssign([nextLanes EXCEPT
                                 ![CHOOSE i \in free : \A j \in free : i <= j] = Head(notes)],
                             matchedNotes, Tail(notes))
             ELSE DemoAssign(nextLanes, matchedNotes, Tail(notes))

\* animate, lines 180-295, on the frame it read at time now.
DemoAnimate(dataArray, sampleRate, now) ==
    \E currentNotes \in {DemoCurrentNotes(<<>>, DemoTopPeaks(dataArray, sampleRate))} :
        \E debounced \in {DemoDebounce(demoActiveNotes, currentNotes, now, <<>>, <<>>)} :
            \E keep \in {DemoKeep(demoLanes, debounced.confirmed)} :
                /\ demoConfirmedNotes' = debounced.confirmed
                /\ demoActiveNotes' = DemoAddNew(debounced.kept, currentNotes, now)
                /\ demoLanes' = DemoAssign(keep.nextLanes, keep.matchedNotes, debounced.confirmed)
                /\ UNCHANGED demoScale

\* The frames both are fed: peaks at bins below and above the monolith's own
\* maxBin.  The monolith is built with its own MAX_FREQ_SCALE or with that of
\* the components.
RefineBins == {20, 22, 200}
RefineFrames == {[length |-> FrameLength, amp |-> a] : a \in [RefineBins -> FrameAmps]}
RefineTimeSteps == {0, 26}
DemoScales == {<<DEMO_MAX_FREQ_SCALE_NUM, DEMO_MAX_FREQ_SCALE_DEN>>,
               <<MAX_FREQ_SCALE_NUM, MAX_FREQ_SCALE_DEN>>}

\* One animation frame given to both: detect() and then
\* noteVisualizer.update() on what it returned (part_001 77-80), and the
\* monolith's animate() on the same frame, sample rate and time.
RefineTick ==
    \E dataArray \in RefineFrames, sampleRate \in SampleRates, d \in RefineTimeSteps :
        /\ currentTimeMs + d <= MaxTimeMs
        /\ Detect(dataArray, sampleRate, currentTimeMs + d)
        /\ Observe(dataArray, sampleRate)
        /\ NoteVisualizerUpdate(Confirmed(detectorActiveNotes,
                                          CurrentNotes(dataArray, sampleRate),
                                          currentTimeMs + d))
        /\ DemoAnimate(dataArray, sampleRate, currentTimeMs + d)
        /\ UNCHANGED <<recorderVars, clock, returned, call, mapperVars, playerVars, engineVars, pipelineVars>>

InitRefinement ==
    /\ NewRecorder(RECORD_DURATION_MS, NOTES_TO_RECORD)
    /\ InitDetector /\ InitLanes /\ InitMapper /\ InitPlayer /\ InitEngine /\ InitPipeline
    /\ \E scale \in DemoScales : NewDemoSim(scale)

NextRefinement == RefineTick

SpecRefinement == InitRefinement /\ [][NextRefinement]_vars

---------------------------------------------------------------------------
(* A caller that keeps the array getRecording() returned and writes to it *)

\* What the caller writes into an event: a field and its new value.
CallerWrites == {<<"note", "Z9">>, <<"startTime", -1>>, <<"duration", -1>>}
CallerEvent == [note |-> "Z9", startTime |-> -1, duration |-> -1]

\* returned[k][field] = value: the write lands in the object the cell holds,
\* which is the recorder's own event while the cell shares it.
CallerSetField(k, w) ==
    /\ k \in DOMAIN returned
    /\ IF returned[k].ref > 0
       THEN /\ recordedNotes' = [recordedNotes EXCEPT ![returned[k].ref][w[1]] = w[2]]
            /\ UNCHANGED returned
       ELSE /\ returned' = [returned EXCEPT ![k].val[w[1]] = w[2]]
            /\ UNCHANGED recordedNotes
    /\ call' = Call("caller", <<>>)
    /\ UNCHANGED <<isRecording, startTime, activeNotes, maxDuration, maxNotes, clock, detectorVars, laneVars, mapperVars, playerVars, engineVars, pipelineVars, demoVars>>

\* returned.push(event)
CallerPush ==
    /\ call.op = "getRecording"
    /\ returned' = Append(returned, [ref |-> 0, val |-> CallerEvent])
    /\ call' = Call("caller", <<>>)
    /\ UNCHANGED <<recorderVars, clock, detectorVars, laneVars, mapperVars, playerVars, engineVars, pipelineVars, demoVars>>

\* returned.pop()
CallerPop ==
    /\ returned # <<>>
    /\ returned' = SubSeq(returned, 1, Len(returned) - 1)
    /\ call' = Call("caller", <<>>)
    /\ UNCHANGED <<recorderVars, clock, detectorVars, laneVars, mapperVars, playerVars, engineVars, pipelineVars, demoVars>>

\* The recorder's operations leave the caller's array alone; start() replaces
\* the recorder's list (line 23), so the caller's array then holds the only
\* references to the old events.
NextRecorderCaller ==
    \/ Start /\ returned' = Detached(returned) /\ UNCHANGED pipelineVars
    \/ Stop /\ UNCHANGED <<returned, pipelineVars, demoVars>>
    \/ \E currentNotes \in OrderedSets({"A4"}) :
           Update(currentNotes) /\ UNCHANGED <<returned, pipelineVars, demoVars>>
    \/ GetRecording
    \/ Tick /\ UNCHANGED returned
    \/ \E k \in 1..MaxEvents, w \in CallerWrites : CallerSetField(k, w)
    \/ CallerPush
    \/ CallerPop

InitRecorderCaller == Init /\ maxDuration = MaxMaxDuration /\ maxNotes = Cardinality(RecorderNotes)

SpecRecorderCaller == InitRecorderCaller /\ [][NextRecorderCaller]_vars

---------------------------------------------------------------------------
(* Claims about the Recorder, checked under SpecRecorder *)

\* The step is an update() that ran past both early returns (lines 34 and 37).
LiveUpdateStep ==
    /\ call'.op = "update"
    /\ isRecording
    /\ clock - startTime < maxDuration

\* The step is an update() that found the session at its maximum duration.
AutoStopStep ==
    /\ call'.op = "update"
    /\ isRecording
    /\ clock - startTime >= maxDuration

\* The entries of the active map whose note is (not) in the confirmed set `cur`.
AbsentEntries(cur) == {i \in DOMAIN activeNotes : activeNotes[i].note \notin Range(cur)}
PresentEntries(cur) == {i \in DOMAIN activeNotes : activeNotes[i].note \in Range(cur)}

\* The events a getRecording() call would hand out now.
GetRecordingValue == [k \in 1..Len(getRecording) |-> CellValue(getRecording[k])]

\* The events a step appended to the list.
Appended == {k \in DOMAIN recordedNotes' : k > Len(recordedNotes)}
ListKept == 
    /\ Len(recordedNotes') >= Len(recordedNotes)
    /\ \A k \in DOMAIN recordedNotes : recordedNotes'[k] = recordedNotes[k]

\* C1: the active map never holds more than maxNotes entries; a live update()
\* tracks the new confirmed notes in the set's order only while fewer than
\* maxNotes entries are held, and a new note met at capacity is not tracked,
\* while the entries that stay and the event list are what the note-off pass
\* left.
C1_DropStep ==
    LiveUpdateStep =>
        LET cur     == call'.notes
            nKept   == Cardinality(PresentEntries(cur))
            isNew(j) == ~MapHas(activeNotes, cur[j])
            \* how many new notes precede position j in the confirmed set
            newBefore(j) == Cardinality({i \in 1..(j-1) : isNew(i)})
            dropped == {j \in DOMAIN cur : isNew(j) /\ nKept + newBefore(j) >= maxNotes}
        IN  /\ \A j \in dropped : ~MapHas(activeNotes', cur[j])
            /\ \A j \in DOMAIN cur :
                   (isNew(j) /\ j \notin dropped) =>
                       \E i \in DOMAIN activeNotes' :
                           activeNotes'[i] = [note |-> cur[j], start |-> clock]
            /\ \A i \in PresentEntries(cur) :
                   \E k \in DOMAIN activeNotes' : activeNotes'[k] = activeNotes[i]
            /\ ListKept
            /\ Len(recordedNotes') = Len(recordedNotes) + Cardinality(AbsentEntries(cur))
\* An update() that ends the session tracks none of its confirmed notes.
C1_DropAtTimeout ==
    AutoStopStep => \A j \in DOMAIN call'.notes : ~MapHas(activeNotes', call'.notes[j])
C1_CapacityBound ==
    [](Len(activeNotes) <= maxNotes) /\ [][C1_DropStep /\ C1_DropAtTimeout]_vars

\* C1 witness: an update() has just left a confirmed note untracked with the
\* map at capacity.
C1_Witness ==
    /\ call.op = "update" /\ call.was /\ isRecording
    /\ Len(activeNotes) = maxNotes
    /\ \E j \in DOMAIN call.notes : ~MapHas(activeNotes, call.notes[j])

\* C2 as stated: every update() of a recording recorder appends exactly one
\* event per active note absent from the confirmed set, {note, startTime =
\* onset - sessionStart, duration = now - onset}, and removes that note from
\* the map; an active note still confirmed yields no event and keeps its onset.
\* (now is the time the call read last: clock' = clock unless the call ended
\* the session.)
C2_NoteOffEffect ==
    LET cur == call'.notes
    IN  /\ ListKept
        /\ Cardinality(Appended) = Cardinality(AbsentEntries(cur))
        /\ \A i \in AbsentEntries(cur) :
               /\ Cardinality({k \in Appended :
                     recordedNotes'[k] =
                        [note |-> activeNotes[i].note,
                         startTime |-> activeNotes[i].start - startTime,
                         duration |-> clock' - activeNotes[i].start]}) = 1
               /\ ~MapHas(activeNotes', activeNotes[i].note)
        /\ \A i \in PresentEntries(cur) :
               /\ \A k \in Appended : recordedNotes'[k].note # activeNotes[i].note
               /\ \E k \in DOMAIN activeNotes' : activeNotes'[k] = activeNotes[i]
C2_NoteOffWhileRecording == [][(call'.op = "update" /\ isRecording) => C2_NoteOffEffect]_vars

\* C2 amended: the same, for an update() of a recording recorder whose
\* session has not reached its maximum duration.
C2_NoteOff == [][LiveUpdateStep => C2_NoteOffEffect]_vars

\* C2 witness: in a running session an update() has finalized a note that had
\* sounded for a while, and another note stays active with its earlier onset.
C2_Witness ==
    /\ call.op = "update" /\ call.was /\ isRecording
    /\ Len(recordedNotes) = call.nEvents + 1
    /\ recordedNotes[Len(recordedNotes)].duration > 0
    /\ recordedNotes[Len(recordedNotes)].startTime > 0
    /\ \E i \in DOMAIN activeNotes : activeNotes[i].start < clock

\* C3: stop() while recording appends exactly one event per active note, with
\* duration = stopTime - onset and startTime = onset - sessionStart, empties
\* the map, goes idle, and leaves the earlier events in place, all of them
\* returned by getRecording().
C3_StopStep ==
    (call'.op = "stop" /\ isRecording) =>
        /\ ListKept
        /\ Len(recordedNotes') = Len(recordedNotes) + Len(activeNotes)
        /\ \A i \in DOMAIN activeNotes :
               recordedNotes'[Len(recordedNotes) + i] =
                   [note |-> activeNotes[i].note,
                    startTime |-> activeNotes[i].start - startTime,
                    duration |-> clock - activeNotes[i].start]
        /\ activeNotes' = <<>>
        /\ isRecording' = FALSE
        /\ GetRecordingValue' = recordedNotes'
C3_Stop == [][C3_StopStep]_vars

\* C3 witness: a stop() has just finalized an active note that had sounded for
\* a while, after an event was already in the list.
C3_Witness ==
    /\ call.op = "stop" /\ call.was /\ ~isRecording
    /\ call.nActive >= 1 /\ call.nEvents >= 1
    /\ Len(recordedNotes) = call.nEvents + call.nActive
    /\ recordedNotes[Len(recordedNotes)].duration > 0

\* C4 as stated: every event the auto-stop appends has duration =
\* maxDuration - onset offset, that is startTime + duration = maxDuration
\* (not counting the time that passes inside the call, clock' - clock).
C4_AutoStopStep ==
    AutoStopStep =>
        \A k \in Appended :
            recordedNotes'[k].startTime + recordedNotes'[k].duration - (clock' - clock)
                = maxDuration
C4_AutoStopDurations == [][C4_AutoStopStep]_vars

\* C4 amended: an update() goes idle exactly when the session has reached its
\* maximum duration, and it then finalizes every active note with duration =
\* stop time - onset, the stop time being the time of that update(): so
\* startTime + duration = stop time - sessionStart >= maxDuration.
C4_AtLeastStep ==
    (call'.op = "update" /\ isRecording) =>
        /\ isRecording' = FALSE <=> clock - startTime >= maxDuration
        /\ isRecording' = FALSE =>
               /\ Cardinality(Appended) = Len(activeNotes)
               /\ \A i \in DOMAIN activeNotes :
                      LET e == recordedNotes'[Len(recordedNotes) + i]
                      IN  /\ e.note = activeNotes[i].note
                          /\ e.startTime = activeNotes[i].start - startTime
                          /\ e.duration = clock' - activeNotes[i].start
                          /\ e.startTime + e.duration >= maxDuration
C4_AutoStopAtLeast == [][C4_AtLeastStep]_vars

\* C4 witness: an update() later than the maximum duration has ended the
\* session and finalized a note that then runs past the maximum duration.
C4_Witness ==
    /\ call.op = "update" /\ call.was /\ ~isRecording
    /\ call.nActive >= 1
    /\ Len(recordedNotes) = call.nEvents + call.nActive
    /\ LET e == recordedNotes[Len(recordedNotes)]
       IN  e.startTime + e.duration > maxDuration

\* C5: an update() at or past the maximum duration leaves the recorder as a
\* stop() at that moment would (idle, every active note finalized with the
\* time stop() reads, the map empty), and none of its confirmed notes is
\* tracked or given an event of its own.
C5_AutoStopStep ==
    AutoStopStep =>
        /\ isRecording' = FALSE
        /\ startTime' = startTime
        /\ activeNotes' = <<>>
        /\ ListKept
        /\ Len(recordedNotes') = Len(recordedNotes) + Len(activeNotes)
        /\ \A i \in DOMAIN activeNotes :
               recordedNotes'[Len(recordedNotes) + i] =
                   [note |-> activeNotes[i].note,
                    startTime |-> activeNotes[i].start - startTime,
                    duration |-> clock' - activeNotes[i].start]
C5_AutoStopIsStop == [][C5_AutoStopStep]_vars

\* C5 witness: an update() carrying confirmed notes has ended the session and
\* finalized an active note.
C5_Witness ==
    /\ call.op = "update" /\ call.was /\ ~isRecording
    /\ call.notes # <<>>
    /\ call.nActive >= 1
    /\ Len(recordedNotes) = call.nEvents + call.nActive

\* C6: an idle recorder ignores update() and stop(): state, event list, active
\* map and session start stay as they were.
C6_IdleStep ==
    (~isRecording /\ call'.op \in {"update", "stop"}) =>
        UNCHANGED <<isRecording, recordedNotes, activeNotes, startTime>>
C6_IdleNoOp == [][C6_IdleStep]_vars

\* C6 witness: an update() with confirmed notes has met a recorder that was
\* idle after a session that left events.
C6_Witness ==
    /\ call.op = "update" /\ ~call.was /\ ~isRecording
    /\ call.notes # <<>>
    /\ recordedNotes # <<>>

\* C7: start() from any state leaves state recording, the list and the map
\* empty and sessionStart the current time; afterwards nothing of an earlier
\* session is in the recorder: every onset in the map is at or after the
\* session start and every event starts at offset >= 0.
C7_StartStep ==
    call'.op = "start" =>
        /\ isRecording'
        /\ recordedNotes' = <<>>
        /\ activeNotes' = <<>>
        /\ startTime' = clock
C7_NothingOlder ==
    /\ \A i \in DOMAIN activeNotes : activeNotes[i].start >= startTime
    /\ \A k \in DOMAIN recordedNotes : recordedNotes[k].startTime >= 0
C7_StartResets == []C7_NothingOlder /\ [][C7_StartStep]_vars

\* C7 witness: start() was called on a recorder that was recording, with an
\* event in its list and a note still active, at a later time than the
\* session it replaces began.
C7_Witness ==
    /\ call.op = "start" /\ call.was
    /\ call.nEvents >= 1 /\ call.nActive >= 1
    /\ startTime > 0

\* C8: nothing a caller does to a returned array or to the events in it
\* changes what getRecording() returns afterwards, and no recorder operation
\* changes an array already returned.
C8_NoAliasStep ==
    /\ call'.op = "caller" => GetRecordingValue' = GetRecordingValue
    /\ call'.op \in {"start", "stop", "update", "tick"} => ReturnedValue' = ReturnedValue
C8_NoAlias == [][C8_NoAliasStep]_vars

\* C9: getRecording() while recording returns the event list as it stands, in
\* its order, and an active note has no event for its current sounding: every
\* returned event of that note ended at or before its current onset.
C9_GetRecordingStep ==
    (call'.op = "getRecording" /\ isRecording) =>
        /\ ReturnedValue' = recordedNotes
        /\ \A i \in DOMAIN activeNotes : \A k \in DOMAIN returned' :
               CellValue(returned'[k]).note = activeNotes[i].note =>
                   CellValue(returned'[k]).startTime + CellValue(returned'[k]).duration
                       <= activeNotes[i].start - startTime
C9_PartialRecording == [][C9_GetRecordingStep]_vars

\* C9 witness: getRecording() was called mid-session with an event in the
\* list and the same note active again.
C9_Witness ==
    /\ call.op = "getRecording" /\ isRecording
    /\ returned # <<>>
    /\ \E i \in DOMAIN activeNotes : \E k \in DOMAIN returned :
           CellValue(returned[k]).note = activeNotes[i].note

---------------------------------------------------------------------------
(* Claims about the NoteDetector, checked under SpecDetector *)

\* The first-seen time the map holds for a note.
FirstSeen(active, note) == active[MapGet(active, note)].start

\* C10: after a detect() call a note of the candidate map is confirmed when
\* and only when the call's timestamp is more than MIN_NOTE_DURATION past its
\* first-seen time: not at MIN_NOTE_DURATION - 1 nor at MIN_NOTE_DURATION, and
\* always from MIN_NOTE_DURATION + 1 on.
C10_Debounced ==
    /\ Range(confirmedNotes) \subseteq MapKeys(detectorActiveNotes)
    /\ \A i \in DOMAIN detectorActiveNotes :
           LET e == detectorActiveNotes[i]
           IN  /\ currentTimeMs - e.start = MIN_NOTE_DURATION - 1 => e.note \notin Range(confirmedNotes)
               /\ currentTimeMs - e.start <= MIN_NOTE_DURATION => e.note \notin Range(confirmedNotes)
               /\ currentTimeMs - e.start >= MIN_NOTE_DURATION + 1 => e.note \in Range(confirmedNotes)
\* A detect() call confirms exactly the notes that had a candidate entry
\* before the call, are in the frame's note set, and were first seen more
\* than MIN_NOTE_DURATION before the call's timestamp.
C10_DetectStep ==
    detectorVars' # detectorVars =>
        \A note \in MapKeys(detectorActiveNotes) \cup Range(frameNotes') \cup Range(confirmedNotes') :
            note \in Range(confirmedNotes') <=>
                /\ MapHas(detectorActiveNotes, note)
                /\ note \in Range(frameNotes')
                /\ currentTimeMs' - FirstSeen(detectorActiveNotes, note) > MIN_NOTE_DURATION
C10_StrictThreshold == []C10_Debounced /\ [][C10_DetectStep]_vars

\* C10 witness: one note is confirmed MIN_NOTE_DURATION + 1 ms after it was
\* first seen while another, first seen MIN_NOTE_DURATION ms ago, is not.
C10_Witness ==
    \E i, j \in DOMAIN detectorActiveNotes :
        /\ currentTimeMs - detectorActiveNotes[i].start = MIN_NOTE_DURATION + 1
        /\ detectorActiveNotes[i].note \in Range(confirmedNotes)
        /\ currentTimeMs - detectorActiveNotes[j].start = MIN_NOTE_DURATION
        /\ detectorActiveNotes[j].note \notin Range(confirmedNotes)

\* C11: a note that was heard before, was absent from the previous frame's
\* note set and is in this frame's note set has this frame's timestamp as its
\* first-seen time; and a note is in the confirmed set of a detect() call only
\* if it was in the note set of that call's frame and of the frame before it,
\* so a note that alternates present/absent on successive calls is never
\* confirmed.
C11_ResetStep ==
    \A n \in Range(frameNotes') :
        n \in heard /\ ~SetHas(frameNotes, n) =>
            /\ MapHas(detectorActiveNotes', n)
            /\ FirstSeen(detectorActiveNotes', n) = currentTimeMs'
C11_FlickerStep ==
    \A n \in Range(confirmedNotes') :
        detectorVars' # detectorVars => SetHas(frameNotes, n) /\ SetHas(frameNotes', n)
C11_ClockReset == [][C11_ResetStep /\ C11_FlickerStep]_vars

\* C11 witness: a note heard earlier and absent from the frame before came
\* back in the last frame, later than MIN_NOTE_DURATION after the detector
\* started; its first-seen time is the last call's timestamp and it is not
\* confirmed.
C11_Witness ==
    \E n \in reappeared :
        /\ currentTimeMs > MIN_NOTE_DURATION
        /\ MapHas(detectorActiveNotes, n)
        /\ FirstSeen(detectorActiveNotes, n) = currentTimeMs
        /\ n \notin Range(confirmedNotes)

\* C20: every note of a frame's note set is the note of a bin of that frame
\* whose index is below floor(length * MAX_FREQ_SCALE) and not 0 and whose
\* amplitude is greater than NOTE_THRESHOLD; so a bin at the threshold, a bin
\* at or above the scan limit and bin 0 contribute no note.  Checked under
\* SpecPeaks.
C20_PeakEligibility ==
    \A k \in DOMAIN frameNotes :
        \E i \in DOMAIN detectInput.dataArray.amp :
            /\ i # 0
            /\ i < (detectInput.dataArray.length * MAX_FREQ_SCALE_NUM) \div MAX_FREQ_SCALE_DEN
            /\ detectInput.dataArray.amp[i] > NOTE_THRESHOLD
            /\ getNoteFromFrequency(i * detectInput.sampleRate) = frameNotes[k]

\* C20 witness: the last frame had bin 0 and the bin at the scan limit above
\* the threshold and a scanned bin exactly at the threshold; its note set is
\* empty.
C20_Witness ==
    /\ DOMAIN detectInput.dataArray.amp = {0, 20, 307}
    /\ detectInput.dataArray.amp[0] > NOTE_THRESHOLD
    /\ detectInput.dataArray.amp[307] > NOTE_THRESHOLD
    /\ detectInput.dataArray.amp[20] = NOTE_THRESHOLD
    /\ frameNotes = <<>>

\* Bin i of the last frame was scanned and above the threshold.
PeakBin(i) ==
    /\ i \in DOMAIN detectInput.dataArray.amp
    /\ i < (detectInput.dataArray.length * MAX_FREQ_SCALE_NUM) \div MAX_FREQ_SCALE_DEN
    /\ detectInput.dataArray.amp[i] > NOTE_THRESHOLD

\* Bin j of the last frame comes before bin i when the peaks are ranked:
\* the larger amplitude first, the lower bin first among equal amplitudes.
RanksBefore(j, i) ==
    \/ detectInput.dataArray.amp[j] > detectInput.dataArray.amp[i]
    \/ detectInput.dataArray.amp[j] = detectInput.dataArray.amp[i] /\ j < i

\* Bin i is among the NOTES_TO_SHOW first peaks of the last frame.
TopBin(i) ==
    /\ PeakBin(i)
    /\ Cardinality({j \in DOMAIN detectInput.dataArray.amp : PeakBin(j) /\ RanksBefore(j, i)})
           < NOTES_TO_SHOW

\* C21: the note set of a frame holds the notes of the NOTES_TO_SHOW peaks of
\* largest amplitude (the lower bin first among equal amplitudes) and of no
\* other bin, each note name once; so the frame's note set and the confirmed
\* set have at most NOTES_TO_SHOW notes.  Checked under SpecTopK.
C21_TopK ==
    /\ Range(frameNotes) =
           {getNoteFromFrequency(i * detectInput.sampleRate) :
                i \in {j \in DOMAIN detectInput.dataArray.amp : TopBin(j)}} \ {""}
    /\ \A i, j \in DOMAIN frameNotes : i # j => frameNotes[i] # frameNotes[j]
    /\ Len(frameNotes) <= NOTES_TO_SHOW
    /\ Len(confirmedNotes) <= NOTES_TO_SHOW

\* C21 witness: six bins of the last frame were peaks of one amplitude; the
\* peak of the highest bin gave no note, and the two peaks within the
\* semitone of A4 gave one.
C21_Witness ==
    /\ Cardinality({i \in DOMAIN detectInput.dataArray.amp : PeakBin(i)}) = NOTES_TO_SHOW + 1
    /\ \A i \in DOMAIN detectInput.dataArray.amp : detectInput.dataArray.amp[i] = NOTE_THRESHOLD + 1
    /\ frameNotes = <<"G#4", "A4", "A#4">>

\* C22: after a detect() call the keys of the candidate map are the notes of
\* the call's frame.  In a call, a note that has no entry and is in the frame
\* gets an entry with the call's timestamp; a note that is not in the frame
\* has no entry afterwards, whether the call before had confirmed it or not.
\* Checked under SpecDetector.
C22_KeysAreFrame == MapKeys(detectorActiveNotes) = Range(frameNotes)
C22_TrackStep ==
    detectorVars' # detectorVars =>
        /\ \A n \in Range(frameNotes') :
               ~MapHas(detectorActiveNotes, n) =>
                   /\ MapHas(detectorActiveNotes', n)
                   /\ FirstSeen(detectorActiveNotes', n) = currentTimeMs'
        /\ \A n \in MapKeys(detectorActiveNotes) \cup Range(confirmedNotes) :
               ~SetHas(frameNotes', n) => ~MapHas(detectorActiveNotes', n)
C22_MapTracksFrame == []C22_KeysAreFrame /\ [][C22_TrackStep]_vars

\* C22 witness: after a call later than MIN_NOTE_DURATION one note heard
\* before has no entry and another has an entry made in this call.
C22_Witness ==
    /\ currentTimeMs > MIN_NOTE_DURATION
    /\ \E n \in heard : ~MapHas(detectorActiveNotes, n)
    /\ \E i \in DOMAIN detectorActiveNotes :
           /\ detectorActiveNotes[i].start = currentTimeMs
           /\ detectorActiveNotes[i].note \in reappeared

---------------------------------------------------------------------------
(* Claims about the NoteVisualizerController, checked under SpecLanes *)

\* The step is an update(confirmedNotes) call; laneCall' holds its argument.
LaneUpdateStep == laneCall'.op = "update"

\* The last update() created an element in lane i.
EnteredLane(i) == \E k \in DOMAIN entered : entered[k].laneIndex = i

\* C12: a note that is in lane i before an update() call and in the call's
\* confirmed set is in lane i after the call, and the call creates no element
\* for it.
C12_StableStep ==
    LaneUpdateStep =>
        \A i \in DOMAIN lanes :
            lanes[i] # null /\ SetHas(laneCall'.notes, lanes[i]) =>
                /\ lanes'[i] = lanes[i]
                /\ \A k \in DOMAIN entered' : entered'[k].note # lanes[i]
C12_LaneStability == [][C12_StableStep]_vars

\* C12 witness: after an update() a note it did not place sits in a lane
\* above an empty lane.
C12_Witness ==
    /\ laneCall.op = "update"
    /\ \E i, j \in DOMAIN lanes :
           j < i /\ lanes[j] = null /\ lanes[i] # null /\ ~EnteredLane(i)

\* C13: the lanes are NOTES_TO_SHOW slots, each empty or holding one note
\* name, and no note name is in two lanes.
C13_LaneUniqueness ==
    /\ DOMAIN lanes = 0..(NOTES_TO_SHOW - 1)
    /\ \A i \in DOMAIN lanes : lanes[i] = null \/ lanes[i] \in Range(LaneOrder)
    /\ \A i, j \in DOMAIN lanes : i # j /\ lanes[i] # null => lanes[i] # lanes[j]

\* C13 witness: every lane is occupied after an update() that placed some
\* notes beside notes that stayed.
C13_Witness ==
    /\ laneCall.op = "update"
    /\ \A i \in DOMAIN lanes : lanes[i] # null
    /\ \E i, j \in DOMAIN lanes : EnteredLane(i) /\ ~EnteredLane(j)

\* C14: an update() that finds every lane occupied by a note of its confirmed
\* set leaves the lanes as they are and creates no element, whatever else the
\* confirmed set holds.
C14_FullStep ==
    LaneUpdateStep /\ (\A i \in DOMAIN lanes : Matched(lanes, i, laneCall'.notes)) =>
        lanes' = lanes /\ entered' = <<>>
C14_NoPreemption == [][C14_FullStep]_vars

\* C14 witness: an update() with more confirmed notes than lanes has left
\* every lane occupied, vacated none and created no element: one confirmed
\* note has no lane.
C14_Witness ==
    /\ laneCall.op = "update"
    /\ Len(laneCall.notes) > NOTES_TO_SHOW
    /\ laneCall.vacated = 0
    /\ entered = <<>>
    /\ \A i \in DOMAIN lanes : lanes[i] # null
    /\ \E k \in DOMAIN laneCall.notes : \A i \in DOMAIN lanes : lanes[i] # laneCall.notes[k]

\* C15: an update() places the confirmed notes that are in no lane, in the
\* confirmed set's order, in the lanes that are empty once the lanes of the
\* notes that left are vacated, lowest index first, until the notes or the
\* lanes run out; it creates one element per note placed, with the note and
\* its lane, and none for any other note.
C15_AssignStep ==
    LaneUpdateStep =>
        \E notes \in {laneCall'.notes} :
        \E free \in {SelectSeq([k \in 1..NOTES_TO_SHOW |-> k - 1],
                               LAMBDA i : ~Matched(lanes, i, notes))} :
        \E new \in {SelectSeq(notes, LAMBDA n : \A i \in DOMAIN lanes : lanes[i] # n)} :
        \E placed \in {IF Len(free) < Len(new) THEN Len(free) ELSE Len(new)} :
            /\ entered' = [k \in 1..placed |-> [note |-> new[k], laneIndex |-> free[k]]]
            /\ \A k \in 1..placed : lanes'[free[k]] = new[k]
            /\ \A k \in (placed + 1)..Len(free) : lanes'[free[k]] = null
C15_AssignmentRule == [][C15_AssignStep]_vars

\* C15 witness: an update() vacated a lane, placed two notes or more and left
\* every lane occupied, one of them by a note that stayed: a lane vacated in
\* the call was filled in the same call.
C15_Witness ==
    /\ laneCall.op = "update"
    /\ laneCall.vacated >= 1
    /\ Len(entered) >= 2
    /\ \A i \in DOMAIN lanes : lanes[i] # null
    /\ \E i \in DOMAIN lanes : ~EnteredLane(i)

\* C16: after an update() every occupied lane holds a note of that call's
\* confirmed set; a lane whose note the confirmed set does not have is empty
\* after the call or holds another note, for which the call created an
\* element in that lane.
C16_HoldsConfirmed ==
    laneCall.op = "update" =>
        \A i \in DOMAIN lanes : lanes[i] # null => SetHas(laneCall.notes, lanes[i])
C16_VacateStep ==
    LaneUpdateStep =>
        \A i \in DOMAIN lanes :
            lanes[i] # null /\ ~SetHas(laneCall'.notes, lanes[i]) =>
                \/ lanes'[i] = null
                \/ /\ lanes'[i] # lanes[i]
                   /\ \E k \in DOMAIN entered' :
                          entered'[k] = [note |-> lanes'[i], laneIndex |-> i]
C16_LaneVacating == []C16_HoldsConfirmed /\ [][C16_VacateStep]_vars

\* C16 witness: an update() found every lane holding a note its confirmed
\* set did not have; after it one lane holds a new note and another is empty.
C16_Witness ==
    /\ laneCall.op = "update"
    /\ laneCall.vacated = NOTES_TO_SHOW
    /\ \E i, j \in DOMAIN lanes : EnteredLane(i) /\ lanes[j] = null

---------------------------------------------------------------------------
(* Claims about getNoteFromFrequency, checked under SpecMapper *)

\* The note names: a name of NOTE_NAMES followed by an octave from -1 to 9.
ValidNoteNames == {NOTE_NAMES[k] \o ToString(o) : k \in DOMAIN NOTE_NAMES, o \in (-1)..9}

\* C17: getNoteFromFrequency returns the empty string for every frequency
\* that is 0 or negative, and never returns a string other than the empty
\* string or a note name.
C17_NoNoteBelowZero ==
    /\ mapperFrequency <= 0 => mapperNote = ""
    /\ mapperNote \in ValidNoteNames \cup {""}

\* C18: for a positive frequency, getNoteFromFrequency returns the empty
\* string when the rounded chromatic index is below 0 (the frequency is under
\* the boundary of index 0) or above 127 (at or over the boundary of index
\* 128), and a non-empty name for every index from 0 to 127.
C18_RangeRejection ==
    mapperFrequency > 0 =>
        IF mapperFrequency < SemitoneFloor[1] \/ mapperFrequency >= SemitoneFloor[129]
        THEN mapperNote = ""
        ELSE mapperNote # ""

\* C18 witness: the calls at the last frequency below index 0 and at the
\* first frequency of index 128 returned the empty string.
C18_Witness ==
    /\ mapperFrequency \in {SemitoneFloor[1] - 1, SemitoneFloor[129]}
    /\ mapperNote = ""

\* C19: a frequency with chromatic index m in 0..127 gets the name
\* NOTE_NAMES[m mod 12] followed by floor(m / 12) - 1: C-1 for 0, C4 for 60,
\* A4 for 69, G9 for 127; every frequency with index 69 gets A4.
C19_NamingFormula ==
    /\ \A m \in 0..127 :
           SemitoneFloor[m + 1] <= mapperFrequency /\ mapperFrequency < SemitoneFloor[m + 2] =>
               /\ mapperNote = NOTE_NAMES[(m % 12) + 1] \o ToString((m \div 12) - 1)
               /\ m = 0 => mapperNote = "C-1"
               /\ m = 60 => mapperNote = "C4"
               /\ m = 69 => mapperNote = "A4"
               /\ m = 127 => mapperNote = "G9"
    /\ mapperFrequency = 440 * FFT_SIZE => mapperNote = "A4"

\* C19 witness: the call at the highest frequency of index 69 returned A4.
C19_Witness ==
    /\ mapperFrequency = SemitoneFloor[71] - 1
    /\ mapperNote = "A4"

---------------------------------------------------------------------------
(* Claims about the Player, checked under SpecPlayer *)

\* The tones play() call id started for item k of its recording.
TonesOf(id, k) == {t \in DOMAIN tones : tones[t].play = id /\ tones[t].item = k}

\* Call id has run to its end, or left by an exception.
Settled(id) == plays[id].status # "waiting"

\* Call id has started one tone for each event of its recording whose name
\* maps to a frequency above 0, and none for any other event.
OneTonePerMappable(id) ==
    \A k \in DOMAIN plays[id].recording :
        Cardinality(TonesOf(id, k)) =
            IF getFrequencyFromNote(plays[id].recording[k].note) > 0 THEN 1 ELSE 0

\* C23: a play() call whose recording holds an event with an unmappable name
\* starts no tone for that event and one tone for every other event that is
\* mappable, before or after it in the list.
C23_SkipsUnmappable ==
    \A id \in DOMAIN plays :
        /\ Settled(id)
        /\ \E k \in DOMAIN plays[id].recording :
               getFrequencyFromNote(plays[id].recording[k].note) <= 0
        => OneTonePerMappable(id)

\* C24: the control points of the gain envelope of every tone are at times
\* that do not decrease: start, end of the attack, start of the release, end.
C24_MonotonicEnvelope ==
    \A t \in DOMAIN tones :
        /\ tones[t].envelope.start <= tones[t].envelope.attackEnd
        /\ tones[t].envelope.attackEnd <= tones[t].envelope.releaseStart
        /\ tones[t].envelope.releaseStart <= tones[t].envelope.end

\* C25: when play() has been called more than once, every call that has run
\* has started a tone for each of its mappable events, and no step removes
\* or changes a tone started before it.
C25_AllStarted == Len(plays) >= 2 => \A id \in DOMAIN plays : Settled(id) => OneTonePerMappable(id)
C25_KeepStep == Len(tones) <= Len(tones') /\ SubSeq(tones', 1, Len(tones)) = tones
C25_OverlappingPlays == []C25_AllStarted /\ [][C25_KeepStep]_vars

---------------------------------------------------------------------------
(* Claims about the AudioEngine, checked under SpecEngine *)

\* C28: when getUserMedia refuses a start() call its stream, the call is
\* rejected and the engine's fields are as they were; an engine without a
\* context gives no frequency data; and a start() call made while the engine
\* has no context goes on to getUserMedia instead of returning at once.
C28_NotStarted == engine.audioContext = 0 => NoFrequencyData
C28_RefusedStep ==
    \A id \in DOMAIN starts :
        starts[id].status = "awaiting" /\ starts'[id].status # "awaiting" /\ engine'.stream # id =>
            starts'[id].status = "rejected" /\ engine' = engine
C28_RetryStep ==
    Len(starts') > Len(starts) /\ engine.audioContext = 0 =>
        starts'[Len(starts')].status = "awaiting"
C28_FailureRecoverable == []C28_NotStarted /\ [][C28_RefusedStep /\ C28_RetryStep]_vars

\* C28 witness: a start() call made after an earlier one was rejected is
\* awaiting its stream, and the engine gives no frequency data.
C28_Witness ==
    /\ NoFrequencyData
    /\ \E id \in DOMAIN starts : starts[id].afterFailure /\ starts[id].status = "awaiting"

\* A detect() call does not confirm a note whose entry it creates.
C32_CreatingStep ==
    \A n \in Range(frameNotes') :
        ~MapHas(detectorActiveNotes, n) => ~SetHas(confirmedNotes', n)

\* A confirmed note is in the frame's note set, and its entry dates from the
\* first of the frames in a row up to this one that had the note: every call
\* since its firstSeenTime had it.
C32_Continuous ==
    \A n \in Range(confirmedNotes) :
        /\ SetHas(frameNotes, n)
        /\ \E e \in seenSince :
               /\ e.note = n
               /\ e.start = detectorActiveNotes[MapGet(detectorActiveNotes, n)].start
               /\ e.start < currentTimeMs

C37_SingleSource ==
    /\ Cardinality(openStreams) <= 1
    /\ Cardinality(openContexts) <= 1
    /\ openStreams \subseteq {engine.stream}
    /\ openContexts \subseteq {engine.audioContext}

---------------------------------------------------------------------------
(* The claims about the recorder's list over a session *)

\* The events the step has put at the end of the list.
NewEvents == SubSeq(recordedNotes', Len(recordedNotes) + 1, Len(recordedNotes'))

\* Every event of the list is where it was, with the fields it had.
C29_Kept ==
    /\ Len(recordedNotes') >= Len(recordedNotes)
    /\ \A k \in DOMAIN recordedNotes : recordedNotes'[k] = recordedNotes[k]

\* The events update() pushes at a note-off, those stop() pushes, and those
\* the stop() of the auto-stop pushes.
C29_AtNoteOff ==
    /\ call'.op = "update" /\ isRecording /\ isRecording'
    /\ ~TimedOut(clock, startTime, maxDuration)
    /\ NewEvents = NoteOffEvents(StoppedNotes(activeNotes, call'.notes), startTime, clock)
C29_AtStop ==
    /\ call'.op = "stop" /\ isRecording /\ ~isRecording'
    /\ NewEvents = FinalEvents(activeNotes, startTime, clock)
C29_AtAutoStop ==
    /\ call'.op = "update" /\ isRecording /\ ~isRecording'
    /\ TimedOut(clock, startTime, maxDuration)
    /\ NewEvents = FinalEvents(activeNotes, startTime, clock')

C29_SessionStep ==
    /\ call'.op # "start" => C29_Kept
    /\ call'.op # "start" /\ Len(recordedNotes') > Len(recordedNotes) =>
           C29_AtNoteOff \/ C29_AtStop \/ C29_AtAutoStop

\* C29: Between one start() and the next, update(), stop() and
\* getRecording() leave every event of the recorder's list in its place and
\* unchanged, and the list grows only by the events of a note-off in update(),
\* of stop(), or of the auto-stop, put at its end.
C29_AppendOnly == [][C29_SessionStep]_vars

C29_Witness ==
    /\ Len(recordedNotes) = 2
    /\ call.op = "update" /\ call.was /\ call.nEvents = 1
    /\ recordedNotes[1] # recordedNotes[2]

\* An update() of a session ends it exactly when the session has lasted
\* maxDuration by the time update() reads; nothing else ends it here, and an
\* idle recorder leaves idle only by start().
C30_SealStep ==
    /\ call'.op = "update" /\ isRecording =>
           (~isRecording' <=> clock - startTime >= maxDuration)
    /\ isRecording /\ ~isRecording' => call'.op = "update"
    /\ ~isRecording /\ isRecording' => call'.op = "start"

\* C30: Once start() has been called, with the clock advancing and update()
\* called on every tick and no stop() call, the recorder becomes idle: it does
\* at the first update() whose time has now - sessionStart >= maxDuration and
\* at no earlier one, and it then stays idle until the next start().
C30_SessionSeals ==
    /\ isRecording ~> ~isRecording
    /\ [][C30_SealStep]_vars

C30_Witness ==
    /\ call.op = "update" /\ call.was /\ ~isRecording
    /\ clock - startTime >= maxDuration
    /\ recordedNotes # <<>>

\* An idle recorder has an empty map.
C34_IdleMapEmpty == ~isRecording => activeNotes = <<>>

\* A stop() or an update() that takes an entry out of the map pushes the
\* event of that entry: its note, its onset from the session start, and its
\* duration up to the time the call read.
C34_EventStep ==
    call'.op \in {"stop", "update"} =>
        \A i \in DOMAIN activeNotes :
            ~MapHas(activeNotes', activeNotes[i].note) =>
                \E k \in (Len(recordedNotes) + 1)..Len(recordedNotes') :
                    /\ recordedNotes'[k].note = activeNotes[i].note
                    /\ recordedNotes'[k].startTime = activeNotes[i].start - startTime
                    /\ recordedNotes'[k].duration = clock' - activeNotes[i].start

\* C34: Whenever the recorder is idle its active-note map is empty, and every
\* note that leaves the map in a stop() or an update(), the auto-stop
\* included, gets its event in that call.
C34_IdleHoldsNothing ==
    /\ []C34_IdleMapEmpty
    /\ [][C34_EventStep]_vars

C34_Witness ==
    /\ ~isRecording /\ activeNotes = <<>>
    /\ call.op \in {"stop", "update"} /\ call.was /\ call.nActive = 2
    /\ Len(recordedNotes) = call.nEvents + 2

\* The end of an event, from the session start.
EventEnd(e) == e.startTime + e.duration

\* Two events of one note: the earlier in the list ends no later than the
\* later one starts.
C35_EventsApart ==
    \A i, j \in DOMAIN recordedNotes :
        i < j /\ recordedNotes[i].note = recordedNotes[j].note =>
            EventEnd(recordedNotes[i]) <= recordedNotes[j].startTime

\* No note has two entries in the map.
C35_OneEntry ==
    \A i, j \in DOMAIN activeNotes : activeNotes[i].note = activeNotes[j].note => i = j

\* The notes an update() pushes an event for are not in the map after it.
C35_NotRetracked ==
    call'.op = "update" =>
        \A k \in (Len(recordedNotes) + 1)..Len(recordedNotes') :
            ~MapHas(activeNotes', recordedNotes'[k].note)

\* C35: Two events of one session with the same note do not overlap, no note
\* is in the active map twice, and a note an update() finalizes is not tracked
\* again by that update().
C35_NoOverlap ==
    /\ [](C35_EventsApart /\ C35_OneEntry)
    /\ [][C35_NotRetracked]_vars

C35_Witness ==
    /\ Len(recordedNotes) = 2
    /\ recordedNotes[1].note = recordedNotes[2].note
    /\ recordedNotes[1].duration > 0
    /\ EventEnd(recordedNotes[1]) <= recordedNotes[2].startTime

\* C36: Every event of the list has startTime >= 0, duration >= 0 and
\* startTime < maxDuration, and every onset in the active map is at or after
\* the session start.
C36_EventBounds ==
    /\ \A k \in DOMAIN recordedNotes :
           /\ recordedNotes[k].startTime >= 0
           /\ recordedNotes[k].duration >= 0
           /\ recordedNotes[k].startTime < maxDuration
    /\ \A i \in DOMAIN activeNotes : activeNotes[i].start >= startTime

C36_Witness ==
    /\ \E k \in DOMAIN recordedNotes :
           /\ recordedNotes[k].startTime = maxDuration - 1
           /\ recordedNotes[k].duration > 0
    /\ \E k \in DOMAIN recordedNotes : recordedNotes[k].startTime = 0

---------------------------------------------------------------------------
(* The claims about the component's animation tick *)

ScenarioEvent == [note |-> "A4", startTime |-> 60, duration |-> 60]

\* C26: In a session started at time 0 whose ticks at 0, 10, 30, 60 and 90
\* read a frame with an A4 peak of amplitude 150 and whose tick at 120 reads a
\* frame with no peak, the confirmed sets of the ticks at 0, 10 and 30 do not
\* hold A4, those of the ticks at 60 and 90 do, nothing is recorded before the
\* tick at 120, and once the recorder has been updated in the tick at 120 its
\* events are exactly {note: A4, startTime: 60, duration: 60}.
C26_Scenario ==
    /\ script \in 1..3 => ~SetHas(confirmedNotes, "A4")
    /\ script \in 4..5 => SetHas(confirmedNotes, "A4")
    /\ script \in 1..Len(ScenarioTimes) => recordedNotes = <<>>
    /\ script = Len(ScenarioTimes) => confirmedNotes = <<>>
    /\ script = Len(ScenarioTimes) + 1 => recordedNotes = <<ScenarioEvent>>

C26_Witness ==
    /\ script = Len(ScenarioTimes) + 1
    /\ clock = 120
    /\ recordedNotes = <<ScenarioEvent>>
    /\ activeNotes = <<>>

\* The calls of a whole animate() that had a frame, in the order of the code.
TickOrder == <<"getFrequencyData", "detect", "noteVisualizer.update", "recorder.update">>

\* What animate() has called so far is a beginning of TickOrder as long as
\* tick says, and every call after getFrequencyData carries the set detect()
\* returned in this tick.
C27_CallsInOrder ==
    /\ Len(tickCalls) <= Len(TickOrder)
    /\ \A k \in DOMAIN tickCalls : tickCalls[k].op = TickOrder[k]
    /\ \A k \in DOMAIN tickCalls : k >= 2 => tickCalls[k].notes = confirmedNotes
    /\ tick = "detected" => Len(tickCalls) = 2
    /\ tick = "drawn" => Len(tickCalls) = 3
    /\ tick = "idle" => Len(tickCalls) \in {0, 1, 3, 4}

\* detect() runs only as the first call of a tick that has a frame.
C27_DetectStep ==
    detectorVars' # detectorVars =>
        /\ tick = "idle" /\ tick' = "detected" /\ ~NoFrequencyData
        /\ tickCalls'[2] = [op |-> "detect", notes |-> confirmedNotes']
        /\ UNCHANGED <<laneVars, recorderVars, call>>

\* The lane assignor runs only after detect(), on the set detect() returned.
C27_DrawStep ==
    (laneVars' # laneVars \/ tick = "detected") =>
        /\ tick = "detected" /\ tick' = "drawn"
        /\ laneCall' = LaneCall(confirmedNotes)
        /\ UNCHANGED <<detectorVars, recorderVars, call>>

\* The recorder's update() runs only after the lane assignor, on the same
\* set, and it runs exactly when a session is active at that point.
C27_RecordStep ==
    /\ call'.op = "update" /\ call' # call =>
           /\ tick = "drawn" /\ tick' = "idle"
           /\ isRecording
           /\ call'.notes = confirmedNotes /\ laneCall.notes = confirmedNotes
           /\ UNCHANGED <<detectorVars, laneVars>>
    /\ tick = "drawn" =>
           /\ tick' = "idle"
           /\ isRecording => call' = Call("update", confirmedNotes)
           /\ ~isRecording => UNCHANGED <<recorderVars, call, tickCalls>>

\* A tick without a frame calls none of the three.
C27_NoFrameStep ==
    tick = "idle" /\ NoFrequencyData /\ tickCalls' # tickCalls =>
        /\ tickCalls' = <<[op |-> "getFrequencyData", notes |-> <<>>]>>
        /\ UNCHANGED <<tick, detectorVars, laneVars, recorderVars, call>>

\* C27: In every animation tick that has a frame the detector runs first,
\* then the lane assignor, then the recorder; the lane assignor and the
\* recorder are given the set that tick's detect() returned; the recorder's
\* update() is called only while a session is active; and a tick without a
\* frame calls none of the three.
C27_TickOrdering ==
    /\ []C27_CallsInOrder
    /\ [][C27_DetectStep /\ C27_DrawStep /\ C27_RecordStep /\ C27_NoFrameStep]_vars

C27_Witness ==
    /\ tick = "idle"
    /\ Len(tickCalls) = Len(TickOrder)
    /\ Len(confirmedNotes) = 2
    /\ call = [op |-> "update", notes |-> confirmedNotes, was |-> TRUE,
               nEvents |-> call.nEvents, nActive |-> call.nActive]
    /\ laneCall.notes = confirmedNotes

\* The notes that have a lane.
LaneOccupants == {lanes[i] : i \in DOMAIN lanes} \ {null}

\* Once animate() has drawn, the lanes hold the confirmed set of that tick.
C33_LanesShowConfirmed ==
    /\ Len(confirmedNotes) <= NOTES_TO_SHOW
    /\ tick # "detected" => LaneOccupants = Range(confirmedNotes)

\* The update() of a tick gives a lane to every confirmed note that had
\* none: no note meets the branch that finds no empty lane.
C33_DrawStep ==
    tick = "detected" /\ tick' = "drawn" =>
        /\ {e.note : e \in Range(entered')} = Range(confirmedNotes) \ LaneOccupants
        /\ Len(entered') = Cardinality(Range(confirmedNotes) \ LaneOccupants)

\* C33: After every tick of the component the notes in the lanes are that
\* tick's confirmed set, which has at most NOTES_TO_SHOW notes; no confirmed
\* note is left without a lane.
C33_NoDisplayDrop ==
    /\ []C33_LanesShowConfirmed
    /\ [][C33_DrawStep]_vars

C33_Witness ==
    /\ tick = "idle"
    /\ Cardinality(LaneOccupants) = NOTES_TO_SHOW
    /\ Len(entered) >= 1
    /\ Len(entered) < NOTES_TO_SHOW

---------------------------------------------------------------------------
(* The claim about the names of the mapper in the hands of the Player *)

\* The name getNoteFromFrequency gives chromatic index midi (lines 15-17).
MapperName(midi) == NOTE_NAMES[(midi % 12) + 1] \o ToString(Octave(midi))

\* Every name of the mapper has a frequency above 0 in the Player, and the
\* mapper gives that frequency the same name.
C38_RoundTrip ==
    \A midi \in 0..127 :
        /\ getFrequencyFromNote(MapperName(midi)) > 0
        /\ getNoteFromFrequency(getFrequencyFromNote(MapperName(midi))) = MapperName(midi)

\* Every event with a name of the mapper has its tone once play() has run.
C38_Scheduled ==
    \A id \in DOMAIN plays :
        Settled(id) =>
            \A k \in DOMAIN plays[id].recording :
                (\E midi \in 0..127 : plays[id].recording[k].note = MapperName(midi)) =>
                    Cardinality(TonesOf(id, k)) = 1

\* C38: For every name the mapper can produce, getFrequencyFromNote returns
\* a frequency above 0 that getNoteFromFrequency maps back to that name, and
\* so every event carrying such a name is given a tone by play().
C38_RoundTripScheduled == C38_RoundTrip /\ C38_Scheduled

---------------------------------------------------------------------------
(* The claim about the monolith beside the components *)

\* The monolith is built with the constants of the components.
SameConstants == demoScale = <<MAX_FREQ_SCALE_NUM, MAX_FREQ_SCALE_DEN>>

\* The monolith's confirmed set, map and lanes are those of the components.
SameDisplay ==
    /\ demoConfirmedNotes = confirmedNotes
    /\ demoActiveNotes = detectorActiveNotes
    /\ demoLanes = lanes

\* C31: Given the same frames, sample rates and times and built with the
\* same constants, the monolith's inline code has after every tick the
\* confirmed set, the candidate map and the lane array that detect() followed
\* by noteVisualizer.update() has.
C31_Refines == SameConstants => SameDisplay

C31_Witness ==
    /\ SameConstants /\ SameDisplay
    /\ FrameAt(detectInput.dataArray, 200) > 0
    /\ Cardinality(LaneOccupants) >= 2
    /\ laneCall.vacated >= 1

=============================================================================
